---- MODULE Spec2Model ----
(***************************************************************************)
(* Model of the LLM provider router (services/providers/provider_manager)  *)
(* and of the hybrid intent classifier (services/intent) of the copilot    *)
(* desktop server.                                                         *)
(*                                                                         *)
(* A Python dict is modelled by the sequence of its keys in insertion      *)
(* order, None by the value None, an exception raised by the adapter of    *)
(* provider p by the name p of the adapter that raised it.                 *)
(***************************************************************************)
EXTENDS Integers, Sequences, FiniteSets, TLC

\* ------------------------------------------------------------------ bounds
\* most vocabulary entries in an utterance
MaxWords == 2

\* longest configured "fallback_order" list that is enumerated (two entries
\* besides the active provider are the most that three classes allow)
MaxOrderLen == 2

\* client handles counted per adapter; a count of MaxHandles stands for
\* that many or more
MaxHandles == 2

\* ------------------------------------------------------- values and helpers
None == "None"

\* keys of ProviderManager.provider_classes, in dict insertion order
provider_classes == <<"openai", "gemini", "ollama">>

ClassNames == {provider_classes[i] : i \in 1..Len(provider_classes)}

\* names a caller or a configuration may use: the registered classes and one
\* name that no class is registered under
ProviderNames == ClassNames \cup {"other"}

\* what one adapter's initialize() may do: return True, return False, raise
InitOutcomes == {"true", "false", "raise"}

Range(s) == {s[i] : i \in 1..Len(s)}

\* [x for x in s if Keep(x)]
RECURSIVE Filter(_, _)
Filter(s, keep) ==
    IF s = <<>> THEN <<>>
    ELSE IF Head(s) \in keep THEN <<Head(s)>> \o Filter(Tail(s), keep)
         ELSE Filter(Tail(s), keep)

SeqsUpTo(S, n) == UNION {[1..k -> S] : k \in 0..n}

\* ------------------------------------------------------------------- state
VARIABLES
    config,           \* ProviderManager.config
    providers,        \* keys of ProviderManager.providers, insertion order
    active_provider,  \* ProviderManager.active_provider
    fallback_order,   \* ProviderManager.fallback_order
    initialized,      \* initialize() has run: the router is built once at
                      \* startup, requests and switches come after it
    ret,              \* last call of initialize / set_active_provider and its result
    cc,               \* the chat_completion dispatch in flight
    svc,              \* IntentRecognitionService: whether llm_service is set,
                      \* and whether that LLMService has a client
    ci,               \* the classify_intent call in flight
    prev,             \* what the call before returned, when the caller has
                      \* repeated it with the same text and use_llm
    ad                \* one provider adapter: its configuration, its
                      \* attributes and its initialize() call in flight

router_vars == <<config, providers, active_provider, fallback_order, initialized, ret, cc>>

intent_vars == <<svc, ci, prev>>

vars == <<router_vars, intent_vars, ad>>

Idle == [pc |-> "idle", provider |-> None, use_fallback |-> TRUE,
         target |-> None, e |-> None, iter |-> <<>>, idx |-> 0,
         calls |-> <<>>, failed |-> <<>>, keyerrors |-> <<>>,
         result |-> [kind |-> "none", by |-> None]]

\* the configurations get_llm_providers_config can assemble, and others a
\* caller of the constructor may pass
Configs ==
    [enabled : SUBSET ClassNames,
     preferred_provider : ProviderNames,
     fallback_order : SeqsUpTo(ClassNames, MaxOrderLen)]

\* ------------------------------------------------------------- initialize
\* the loop of initialize(): the providers dict after visiting
\* provider_classes[i..], given the outcome of each adapter's initialize()
RECURSIVE RegisterFrom(_, _, _, _)
RegisterFrom(i, cfg, outcome, provs) ==
    IF i > Len(provider_classes) THEN provs
    ELSE LET provider_name == provider_classes[i]
         IN  IF provider_name \in cfg.enabled /\ outcome[provider_name] = "true"
                 /\ provider_name \notin Range(provs)
             THEN RegisterFrom(i + 1, cfg, outcome, Append(provs, provider_name))
             ELSE RegisterFrom(i + 1, cfg, outcome, provs)

\* a success_count that counts every enabled provider, whatever its
\* initialize() did
SuccessCount_enabled(cfg, outcome) ==
    Cardinality({p \in ClassNames : p \in cfg.enabled})

\* success_count of initialize()
SuccessCount(cfg, outcome) ==
    Cardinality({p \in ClassNames : p \in cfg.enabled /\ outcome[p] = "true"})

\* an active-provider choice that ignores the preferred provider
SetupActive_first(cfg, provs, active) ==
    IF provs # <<>> THEN provs[1] ELSE active

\* _setup_provider_order: the new active provider
SetupActive(cfg, provs, active) ==
    IF cfg.preferred_provider \in Range(provs) THEN cfg.preferred_provider
    ELSE IF provs # <<>> THEN provs[1]
    ELSE active

\* a fallback order that keeps configured names whether registered or not
SetupFallback_unregistered(cfg, provs, active) ==
    Filter(cfg.fallback_order, Range(cfg.fallback_order) \ {active})

\* _setup_provider_order: the new fallback order
SetupFallback(cfg, provs, active) ==
    Filter(cfg.fallback_order, Range(provs) \ {active})

initialize(outcome) ==
    /\ ~initialized
    /\ LET provs == RegisterFrom(1, config, outcome, providers)
           act   == SetupActive(config, provs, active_provider)
       IN  /\ providers' = provs
           /\ active_provider' = act
           /\ fallback_order' = SetupFallback(config, provs, act)
           /\ ret' = [op |-> "initialize", arg |-> None,
                      value |-> (SuccessCount(config, outcome) > 0)]
    /\ initialized' = TRUE
    /\ UNCHANGED <<config, cc>>
    /\ UNCHANGED <<intent_vars, ad>>

\* ------------------------------------------------------ set_active_provider
\* a fallback order left as it was when the active provider changes
WithoutProvider_keep(order, provider_name) == order

\* [p for p in self.fallback_order if p != provider_name]
WithoutProvider(order, provider_name) ==
    Filter(order, Range(order) \ {provider_name})

\* a set_active_provider that does not look the name up in providers
set_active_provider_unchecked(provider_name) ==
    /\ initialized
    /\ active_provider' = provider_name
    /\ fallback_order' = WithoutProvider(fallback_order, provider_name)
    /\ ret' = [op |-> "set_active_provider", arg |-> provider_name,
               value |-> (provider_name \in Range(providers))]
    /\ UNCHANGED <<config, providers, initialized, cc>>
    /\ UNCHANGED <<intent_vars, ad>>

\* a set_active_provider that builds the fallback order anew from the
\* configured list
set_active_provider_recomputed(provider_name) ==
    /\ initialized
    /\ IF provider_name \in Range(providers)
       THEN /\ active_provider' = provider_name
            /\ fallback_order' =
                   Filter(config.fallback_order, Range(providers) \ {provider_name})
            /\ ret' = [op |-> "set_active_provider", arg |-> provider_name,
                       value |-> TRUE]
       ELSE /\ ret' = [op |-> "set_active_provider", arg |-> provider_name,
                       value |-> FALSE]
            /\ UNCHANGED <<active_provider, fallback_order>>
    /\ UNCHANGED <<config, providers, initialized, cc>>
    /\ UNCHANGED <<intent_vars, ad>>

set_active_provider(provider_name) ==
    /\ initialized
    /\ IF provider_name \in Range(providers)
       THEN /\ active_provider' = provider_name
            /\ fallback_order' = WithoutProvider(fallback_order, provider_name)
            /\ ret' = [op |-> "set_active_provider", arg |-> provider_name,
                       value |-> TRUE]
       ELSE /\ ret' = [op |-> "set_active_provider", arg |-> provider_name,
                       value |-> FALSE]
            /\ UNCHANGED <<active_provider, fallback_order>>
    /\ UNCHANGED <<config, providers, initialized, cc>>
    /\ UNCHANGED <<intent_vars, ad>>

\* --------------------------------------------------------- chat_completion
\* what the dispatch hands to its caller: the LLMResponse of adapter "by"
\* (returned), the exception raised by adapter "by" (raised), or the
\* "Provider ... not available" exception (unavailable)
Result(kind, by) == [kind |-> kind, by |-> by]

\* a fallback loop that, once exhausted, raises the error of the last
\* fallback that failed
RECURSIVE FallbackLoop_lastError(_, _, _)
FallbackLoop_lastError(c, i, provs) ==
    IF i > Len(c.iter)
    THEN [c EXCEPT !.pc = "done", !.idx = i,
                   !.result = Result("raised", c.failed[Len(c.failed)])]
    ELSE IF c.iter[i] \in Range(provs)
         THEN [c EXCEPT !.pc = "await_fallback", !.idx = i,
                        !.calls = Append(@, c.iter[i])]
         ELSE FallbackLoop_lastError([c EXCEPT !.keyerrors = Append(@, c.iter[i])],
                                     i + 1, provs)

\* a fallback loop that starts at the second entry of the list
RECURSIVE FallbackLoop_skip(_, _, _)
FallbackLoop_skip(c, i, provs) ==
    LET j == IF i = 1 THEN 2 ELSE i
    IN  IF j > Len(c.iter)
        THEN [c EXCEPT !.pc = "done", !.idx = j, !.result = Result("raised", c.e)]
        ELSE IF c.iter[j] \in Range(provs)
             THEN [c EXCEPT !.pc = "await_fallback", !.idx = j,
                            !.calls = Append(@, c.iter[j])]
             ELSE FallbackLoop_skip([c EXCEPT !.keyerrors = Append(@, c.iter[j])],
                                    j + 1, provs)

\* the fallback loop from position i of the list being iterated, up to the
\* next adapter call: a failed lookup self.providers[name] raises KeyError
\* inside the try and the loop continues
RECURSIVE FallbackLoop(_, _, _)
FallbackLoop(c, i, provs) ==
    IF i > Len(c.iter)
    THEN \* raise e
         [c EXCEPT !.pc = "done", !.idx = i, !.result = Result("raised", c.e)]
    ELSE IF c.iter[i] \in Range(provs)
         THEN [c EXCEPT !.pc = "await_fallback", !.idx = i,
                        !.calls = Append(@, c.iter[i])]
         ELSE FallbackLoop([c EXCEPT !.keyerrors = Append(@, c.iter[i])],
                           i + 1, provs)

\* an except block that tries the fallbacks also when the caller named the
\* provider
TargetFailed_ignoreExplicit(c, order, provs) ==
    LET c1 == [c EXCEPT !.e = c.target, !.failed = Append(@, c.target)]
    IN  IF c1.use_fallback
        THEN FallbackLoop([c1 EXCEPT !.iter = order], 1, provs)
        ELSE [c1 EXCEPT !.pc = "done", !.result = Result("raised", c1.e)]

\* the except block entered when the target adapter raised: e is bound to
\* the target's exception
TargetFailed(c, order, provs) ==
    LET c1 == [c EXCEPT !.e = c.target, !.failed = Append(@, c.target)]
    IN  IF c1.use_fallback /\ c1.provider = None
        THEN FallbackLoop([c1 EXCEPT !.iter = order], 1, provs)
        ELSE [c1 EXCEPT !.pc = "done", !.result = Result("raised", c1.e)]

\* provider or self.active_provider: a falsy provider argument ("" as well
\* as None) is modelled by None
TargetProvider(provider, active) ==
    IF provider # None THEN provider ELSE active

\* a call that checks only that a target is named, not that it is registered
chat_completion_call_unregistered(provider, use_fallback) ==
    /\ initialized
    /\ cc.pc = "idle"
    /\ LET target_provider == TargetProvider(provider, active_provider)
           c == [Idle EXCEPT !.provider = provider, !.use_fallback = use_fallback,
                             !.target = target_provider]
       IN  IF target_provider = None
           THEN cc' = [c EXCEPT !.pc = "done",
                                !.result = Result("unavailable", None)]
           ELSE cc' = [c EXCEPT !.pc = "await_target",
                                !.calls = <<target_provider>>]
    /\ UNCHANGED <<config, providers, active_provider, fallback_order, initialized, ret>>
    /\ UNCHANGED <<intent_vars, ad>>

\* the call, up to the await of the target adapter
chat_completion_call(provider, use_fallback) ==
    /\ initialized
    /\ cc.pc = "idle"
    /\ LET target_provider == TargetProvider(provider, active_provider)
           c == [Idle EXCEPT !.provider = provider, !.use_fallback = use_fallback,
                             !.target = target_provider]
       IN  IF target_provider = None \/ target_provider \notin Range(providers)
           THEN cc' = [c EXCEPT !.pc = "done",
                                !.result = Result("unavailable", None)]
           ELSE cc' = [c EXCEPT !.pc = "await_target",
                                !.calls = <<target_provider>>]
    /\ UNCHANGED <<config, providers, active_provider, fallback_order, initialized, ret>>
    /\ UNCHANGED <<intent_vars, ad>>

\* the target adapter's chat_completion returns (ok) or raises
chat_completion_target(ok) ==
    /\ cc.pc = "await_target"
    /\ cc' = IF ok
             THEN [cc EXCEPT !.pc = "done", !.result = Result("returned", cc.target)]
             ELSE TargetFailed(cc, fallback_order, providers)
    /\ UNCHANGED <<config, providers, active_provider, fallback_order, initialized, ret>>
    /\ UNCHANGED <<intent_vars, ad>>

\* a fallback adapter's chat_completion returns (ok) or raises
chat_completion_fallback(ok) ==
    /\ cc.pc = "await_fallback"
    /\ cc' = IF ok
             THEN [cc EXCEPT !.pc = "done",
                             !.result = Result("returned", cc.iter[cc.idx])]
             ELSE FallbackLoop([cc EXCEPT !.failed = Append(@, cc.iter[cc.idx])],
                               cc.idx + 1, providers)
    /\ UNCHANGED <<config, providers, active_provider, fallback_order, initialized, ret>>
    /\ UNCHANGED <<intent_vars, ad>>

\* the caller has taken the result or the exception
chat_completion_done ==
    /\ cc.pc = "done"
    /\ cc' = Idle
    /\ UNCHANGED <<config, providers, active_provider, fallback_order, initialized, ret>>
    /\ UNCHANGED <<intent_vars, ad>>

\* ===================================================== intent recognition
\* A Python str is modelled by the sequence of its characters, an Optional
\* value by a sequence of length 0 (None, or a missing dict key) or 1.
\* Confidences are counted in units of 1/10000; a float that the code
\* computes one rounding step above or below the decimal d is d + 1 or
\* d - 1, so that comparisons come out as they do on IEEE-754 doubles.

\* ------------------------------------------------------- string literals
S_screenshot == <<"s", "c", "r", "e", "e", "n", "s", "h", "o", "t">>
S_screen_shot == <<"s", "c", "r", "e", "e", "n", " ", "s", "h", "o", "t">>
S_capture_screen == <<"c", "a", "p", "t", "u", "r", "e", " ", "s", "c", "r", "e", "e", "n">>
S_take_a_picture == <<"t", "a", "k", "e", " ", "a", " ", "p", "i", "c", "t", "u", "r", "e">>
S_screen_capture == <<"s", "c", "r", "e", "e", "n", " ", "c", "a", "p", "t", "u", "r", "e">>
S_grab_screen == <<"g", "r", "a", "b", " ", "s", "c", "r", "e", "e", "n">>
S_snap_screen == <<"s", "n", "a", "p", " ", "s", "c", "r", "e", "e", "n">>
S_image_of_screen == <<"i", "m", "a", "g", "e", " ", "o", "f", " ", "s", "c", "r", "e", "e", "n">>
S_analyze == <<"a", "n", "a", "l", "y", "z", "e">>
S_understand == <<"u", "n", "d", "e", "r", "s", "t", "a", "n", "d">>
S_explain == <<"e", "x", "p", "l", "a", "i", "n">>
S_what_is == <<"w", "h", "a", "t", " ", "i", "s">>
S_what_does == <<"w", "h", "a", "t", " ", "d", "o", "e", "s">>
S_tell_me_about == <<"t", "e", "l", "l", " ", "m", "e", " ", "a", "b", "o", "u", "t">>
S_describe == <<"d", "e", "s", "c", "r", "i", "b", "e">>
S_read == <<"r", "e", "a", "d">>
S_interpret == <<"i", "n", "t", "e", "r", "p", "r", "e", "t">>
S_help_with == <<"h", "e", "l", "p", " ", "w", "i", "t", "h">>
S_take == <<"t", "a", "k", "e">>
S_capture == <<"c", "a", "p", "t", "u", "r", "e">>
S_screen == <<"s", "c", "r", "e", "e", "n">>
S_grab == <<"g", "r", "a", "b">>
S_snap == <<"s", "n", "a", "p">>
S_tell_me == <<"t", "e", "l", "l", " ", "m", "e">>
S_email == <<"e", "m", "a", "i", "l">>
S_error == <<"e", "r", "r", "o", "r">>
S_message == <<"m", "e", "s", "s", "a", "g", "e">>
S_document == <<"d", "o", "c", "u", "m", "e", "n", "t">>
S_page == <<"p", "a", "g", "e">>
S_open == <<"o", "p", "e", "n">>
S_launch == <<"l", "a", "u", "n", "c", "h">>
S_start == <<"s", "t", "a", "r", "t">>
S_run == <<"r", "u", "n">>
S_app == <<"a", "p", "p">>
S_application == <<"a", "p", "p", "l", "i", "c", "a", "t", "i", "o", "n">>
S_program == <<"p", "r", "o", "g", "r", "a", "m">>
S_software == <<"s", "o", "f", "t", "w", "a", "r", "e">>
S_notion == <<"n", "o", "t", "i", "o", "n">>
S_chrome == <<"c", "h", "r", "o", "m", "e">>
S_safari == <<"s", "a", "f", "a", "r", "i">>
S_finder == <<"f", "i", "n", "d", "e", "r">>
S_terminal == <<"t", "e", "r", "m", "i", "n", "a", "l">>
S_vscode == <<"v", "s", "c", "o", "d", "e">>
S_slack == <<"s", "l", "a", "c", "k">>
S_discord == <<"d", "i", "s", "c", "o", "r", "d">>
S_spotify == <<"s", "p", "o", "t", "i", "f", "y">>
S_mail == <<"m", "a", "i", "l">>
S_calendar == <<"c", "a", "l", "e", "n", "d", "a", "r">>
S_notes == <<"n", "o", "t", "e", "s">>
S_default_question == <<"W", "h", "a", "t", " ", "d", "o", " ", "y", "o", "u", " ", "s", "e", "e", " ", "i", "n", " ", "t", "h", "i", "s", " ", "s", "c", "r", "e", "e", "n", "s", "h", "o", "t", "?">>
S_take_screenshot_and_analyze == <<"t", "a", "k", "e", "_", "s", "c", "r", "e", "e", "n", "s", "h", "o", "t", "_", "a", "n", "d", "_", "a", "n", "a", "l", "y", "z", "e">>
S_screenshot_dotstar_analyz == <<"s", "c", "r", "e", "e", "n", "s", "h", "o", "t", ".", "*", "a", "n", "a", "l", "y", "z">>
S_take_screenshot == <<"t", "a", "k", "e", "_", "s", "c", "r", "e", "e", "n", "s", "h", "o", "t">>
S_open_application == <<"o", "p", "e", "n", "_", "a", "p", "p", "l", "i", "c", "a", "t", "i", "o", "n">>
S_open_dotstar_app == <<"o", "p", "e", "n", ".", "*", "a", "p", "p">>
\* words of utterances that are not literals of the code
S_Notion == <<"N", "o", "t", "i", "o", "n">>
S_reopen == <<"r", "e", "o", "p", "e", "n">>
S_weather == <<"w", "e", "a", "t", "h", "e", "r">>
S_capture_my_screen == <<"c", "a", "p", "t", "u", "r", "e", " ", "m", "y", " ", "s", "c", "r", "e", "e", "n">>
S_empty == <<>>

\* the user message of _llm_based_classification around the utterance, and
\* the demo_responses of LLMService._get_demo_response around the echo
S_classify_head ==
    <<"C", "l", "a", "s", "s", "i", "f", "y", " ", "t", "h", "i", "s", " ",
      "u", "s", "e", "r", " ", "i", "n", "p", "u", "t", ":", " ", "'">>
S_classify_tail ==
    <<"'">>
S_demo1_head ==
    <<"I", " ", "u", "n", "d", "e", "r", "s", "t", "a", "n", "d", " ", "y",
      "o", "u", "'", "r", "e", " ", "a", "s", "k", "i", "n", "g", " ", "a",
      "b", "o", "u", "t", ":", " ", "'">>
S_demo1_tail ==
    <<".", ".", ".", "'", " ", "T", "h", "i", "s", " ", "i", "s", " ", "a",
      " ", "d", "e", "m", "o", " ", "r", "e", "s", "p", "o", "n", "s", "e",
      " ", "s", "i", "n", "c", "e", " ", "n", "o", " ", "O", "p", "e", "n",
      "A", "I", " ", "A", "P", "I", " ", "k", "e", "y", " ", "i", "s", " ",
      "c", "o", "n", "f", "i", "g", "u", "r", "e", "d", ".">>
S_demo2 ==
    <<"I", "'", "m", " ", "c", "u", "r", "r", "e", "n", "t", "l", "y", " ",
      "r", "u", "n", "n", "i", "n", "g", " ", "i", "n", " ", "d", "e", "m",
      "o", " ", "m", "o", "d", "e", ".", " ", "T", "o", " ", "g", "e", "t",
      " ", "r", "e", "a", "l", " ", "A", "I", " ", "r", "e", "s", "p", "o",
      "n", "s", "e", "s", ",", " ", "p", "l", "e", "a", "s", "e", " ", "c",
      "o", "n", "f", "i", "g", "u", "r", "e", " ", "y", "o", "u", "r", " ",
      "O", "p", "e", "n", "A", "I", " ", "A", "P", "I", " ", "k", "e", "y",
      " ", "i", "n", " ", "t", "h", "e", " ", "s", "e", "r", "v", "e", "r",
      "/", ".", "e", "n", "v", " ", "f", "i", "l", "e", ".">>
S_demo3_head ==
    <<"T", "h", "a", "n", "k", " ", "y", "o", "u", " ", "f", "o", "r", " ",
      "y", "o", "u", "r", " ", "m", "e", "s", "s", "a", "g", "e", ".", " ",
      "I", "n", " ", "d", "e", "m", "o", " ", "m", "o", "d", "e", ",", " ",
      "I", " ", "c", "a", "n", " ", "a", "c", "k", "n", "o", "w", "l", "e",
      "d", "g", "e", " ", "y", "o", "u", "r", " ", "i", "n", "p", "u", "t",
      ":", " ", "'">>
S_demo3_tail ==
    <<".", ".", ".", "'", " ", "b", "u", "t", " ", "c", "a", "n", "n", "o",
      "t", " ", "p", "r", "o", "v", "i", "d", "e", " ", "i", "n", "t", "e",
      "l", "l", "i", "g", "e", "n", "t", " ", "r", "e", "s", "p", "o", "n",
      "s", "e", "s", " ", "w", "i", "t", "h", "o", "u", "t", " ", "a", " ",
      "p", "r", "o", "p", "e", "r", " ", "A", "P", "I", " ", "k", "e", "y",
      ".">>
S_demo4 ==
    <<"I", "'", "m", " ", "A", "I", " ", "C", "o", "p", "i", "l", "o", "t",
      " ", "r", "u", "n", "n", "i", "n", "g", " ", "i", "n", " ", "d", "e",
      "m", "o", "n", "s", "t", "r", "a", "t", "i", "o", "n", " ", "m", "o",
      "d", "e", ".", " ", "T", "h", "e", " ", "i", "n", "t", "e", "r", "f",
      "a", "c", "e", " ", "i", "s", " ", "w", "o", "r", "k", "i", "n", "g",
      " ", "c", "o", "r", "r", "e", "c", "t", "l", "y", ",", " ", "b", "u",
      "t", " ", "I", " ", "n", "e", "e", "d", " ", "a", "n", " ", "O", "p",
      "e", "n", "A", "I", " ", "A", "P", "I", " ", "k", "e", "y", " ", "t",
      "o", " ", "p", "r", "o", "v", "i", "d", "e", " ", "r", "e", "a", "l",
      " ", "a", "s", "s", "i", "s", "t", "a", "n", "c", "e", ".">>
S_demo5_head ==
    <<"Y", "o", "u", "r", " ", "m", "e", "s", "s", "a", "g", "e", " ", "'">>
S_demo5_tail ==
    <<".", ".", ".", "'", " ", "h", "a", "s", " ", "b", "e", "e", "n", " ",
      "r", "e", "c", "e", "i", "v", "e", "d", ".", " ", "T", "h", "i", "s",
      " ", "i", "s", " ", "a", " ", "s", "i", "m", "u", "l", "a", "t", "e",
      "d", " ", "r", "e", "s", "p", "o", "n", "s", "e", " ", "-", " ", "c",
      "o", "n", "f", "i", "g", "u", "r", "e", " ", "O", "P", "E", "N", "A",
      "I", "_", "A", "P", "I", "_", "K", "E", "Y", " ", "f", "o", "r", " ",
      "r", "e", "a", "l", " ", "A", "I", " ", "i", "n", "t", "e", "r", "a",
      "c", "t", "i", "o", "n", "s", ".">>

\* ------------------------------------------------------ str operations
\* str.lower on one character
UpperCase ==
    <<"A", "B", "C", "D", "E", "F", "G", "H", "I", "J", "K", "L", "M",
      "N", "O", "P", "Q", "R", "S", "T", "U", "V", "W", "X", "Y", "Z">>

LowerCase ==
    <<"a", "b", "c", "d", "e", "f", "g", "h", "i", "j", "k", "l", "m",
      "n", "o", "p", "q", "r", "s", "t", "u", "v", "w", "x", "y", "z">>

LowerChar(c) ==
    IF \E i \in 1..Len(UpperCase) : UpperCase[i] = c
    THEN LowerCase[CHOOSE i \in 1..Len(UpperCase) : UpperCase[i] = c]
    ELSE c

\* str.lower
str_lower(s) == [i \in 1..Len(s) |-> LowerChar(s[i])]

RECURSIVE str_lstrip(_)
str_lstrip(s) ==
    IF s # <<>> /\ Head(s) = " " THEN str_lstrip(Tail(s)) ELSE s

RECURSIVE str_rstrip(_)
str_rstrip(s) ==
    IF s # <<>> /\ s[Len(s)] = " " THEN str_rstrip(SubSeq(s, 1, Len(s) - 1)) ELSE s

\* str.strip
str_strip(s) == str_rstrip(str_lstrip(s))

\* sub occurs in s at position i
OccursAt(sub, s, i) ==
    /\ i + Len(sub) - 1 <= Len(s)
    /\ \A j \in 1..Len(sub) : s[i + j - 1] = sub[j]

\* sub in s
str_in(sub, s) == \E i \in 1..(Len(s) - Len(sub) + 1) : OccursAt(sub, s, i)

\* str.split(): the words between runs of whitespace; cur is the word being
\* read at position i
RECURSIVE SplitFrom(_, _, _, _)
SplitFrom(s, i, cur, words) ==
    IF i > Len(s)
    THEN IF cur = <<>> THEN words ELSE Append(words, cur)
    ELSE IF s[i] = " "
         THEN SplitFrom(s, i + 1, <<>>, IF cur = <<>> THEN words ELSE Append(words, cur))
         ELSE SplitFrom(s, i + 1, Append(cur, s[i]), words)

str_split(s) == SplitFrom(s, 1, <<>>, <<>>)

\* " ".join(words)
RECURSIVE str_join(_)
str_join(words) ==
    IF words = <<>> THEN <<>>
    ELSE IF Len(words) = 1 THEN words[1]
    ELSE words[1] \o <<" ">> \o str_join(Tail(words))

\* re.search for the patterns of the code, all of the shape
\* (a|b).*(c|d).*(e|f): pat is the sequence of the alternative sets; group g
\* is looked for from position from on
RECURSIVE SearchFrom(_, _, _, _)
SearchFrom(pat, g, s, from) ==
    IF g > Len(pat) THEN TRUE
    ELSE \E lit \in pat[g] :
            \E i \in from..(Len(s) - Len(lit) + 1) :
                /\ OccursAt(lit, s, i)
                /\ SearchFrom(pat, g + 1, s, i + Len(lit))

re_search(pat, s) == SearchFrom(pat, 1, s, 1)

\* ------------------------------------------------- _initialize_patterns
ScreenshotKeywords ==
    <<S_screenshot, S_screen_shot, S_capture_screen, S_take_a_picture,
      S_screen_capture, S_grab_screen, S_snap_screen, S_image_of_screen>>

AnalysisVerbs == {S_analyze, S_understand, S_explain, S_tell_me, S_describe}

OpenVerbs == {S_open, S_launch, S_start, S_run}

CommonApps ==
    <<S_notion, S_chrome, S_safari, S_finder, S_terminal, S_vscode,
      S_slack, S_discord, S_spotify, S_mail, S_calendar, S_notes>>

\* the dict of intent definitions, in insertion order
intent_patterns ==
    << [name |-> "take_screenshot_and_analyze",
        keywords |-> ScreenshotKeywords,
        analysis_keywords |->
            <<S_analyze, S_understand, S_explain, S_what_is, S_what_does,
              S_tell_me_about, S_describe, S_read, S_interpret, S_help_with>>,
        app_keywords |-> <<>>,
        common_apps |-> <<>>,
        patterns |->
            << <<{S_take}, {S_screenshot}, AnalysisVerbs>>,
               <<{S_capture}, {S_screen}, AnalysisVerbs>>,
               <<{S_screenshot}, {S_email, S_error, S_message, S_document, S_page}>>,
               <<{S_analyze, S_understand, S_explain}, {S_screenshot}>> >>,
        confidence_boost |-> 2000],
       [name |-> "take_screenshot",
        keywords |-> ScreenshotKeywords,
        analysis_keywords |-> <<>>,
        app_keywords |-> <<>>,
        common_apps |-> <<>>,
        patterns |->
            << <<{S_take}, {S_screenshot}>>,
               <<{S_capture}, {S_screen}>>,
               <<{S_grab}, {S_screen}>>,
               <<{S_snap}, {S_screen}>> >>,
        confidence_boost |-> 1000],
       [name |-> "open_application",
        keywords |-> <<S_open, S_launch, S_start, S_run>>,
        analysis_keywords |-> <<>>,
        app_keywords |-> <<S_app, S_application, S_program, S_software>>,
        common_apps |-> CommonApps,
        patterns |->
            << <<OpenVerbs, {CommonApps[i] : i \in 1..Len(CommonApps)}>>,
               <<OpenVerbs, {S_app, S_application, S_program}>> >>,
        confidence_boost |-> 1500],
       [name |-> "chat",
        keywords |-> <<>>,
        analysis_keywords |-> <<>>,
        app_keywords |-> <<>>,
        common_apps |-> <<>>,
        patterns |-> <<>>,
        confidence_boost |-> 0] >>

\* ------------------------------------------------------------- verdicts
Some(x) == <<x>>
Absent == <<>>

NoParams ==
    [application_name |-> Absent, auto_capture |-> Absent, analysis_query |-> Absent]

\* _extract_parameters, the scan of the words for an open/launch/start/run
\* token that has a successor
RECURSIVE WordAfterVerb(_, _)
WordAfterVerb(words, i) ==
    IF i > Len(words) THEN Absent
    ELSE IF words[i] \in OpenVerbs /\ i + 1 <= Len(words) THEN Some(words[i + 1])
    ELSE WordAfterVerb(words, i + 1)

\* _extract_parameters, the scan of common_apps for a name that occurs in
\* the text
RECURSIVE FirstApp(_, _)
FirstApp(text, i) ==
    IF i > Len(CommonApps) THEN Absent
    ELSE IF str_in(CommonApps[i], text) THEN Some(CommonApps[i])
    ELSE FirstApp(text, i + 1)

\* an extraction that looks only at the word after the verb
_extract_parameters_noAppScan(intent, text) ==
    IF intent = "open_application"
    THEN [NoParams EXCEPT !.application_name = WordAfterVerb(str_split(text), 1)]
    ELSE IF intent \in {"take_screenshot", "take_screenshot_and_analyze"}
    THEN [NoParams EXCEPT
             !.auto_capture = Some(TRUE),
             !.analysis_query = IF intent = "take_screenshot_and_analyze"
                                THEN Some(text) ELSE Some(S_default_question)]
    ELSE NoParams

_extract_parameters(intent, text) ==
    IF intent = "open_application"
    THEN LET app == FirstApp(text, 1)
         IN  [NoParams EXCEPT !.application_name =
                 IF app # Absent THEN app ELSE WordAfterVerb(str_split(text), 1)]
    ELSE IF intent \in {"take_screenshot", "take_screenshot_and_analyze"}
    THEN [NoParams EXCEPT
             !.auto_capture = Some(TRUE),
             !.analysis_query = IF intent = "take_screenshot_and_analyze"
                                THEN Some(text) ELSE Some(S_default_question)]
    ELSE NoParams

\* a mapping that hands the utterance to the plain screenshot intent too
_generate_action_query_alwaysText(intent, text) ==
    IF intent \in {"take_screenshot_and_analyze", "take_screenshot"}
    THEN <<Some("take_screenshot"), Some(text)>>
    ELSE IF intent = "open_application" THEN <<Some("open_application"), Some(text)>>
    ELSE <<Absent, Absent>>

\* _generate_action_query: the pair (action, query)
_generate_action_query(intent, text) ==
    IF intent = "take_screenshot_and_analyze" THEN <<Some("take_screenshot"), Some(text)>>
    ELSE IF intent = "take_screenshot"
    THEN <<Some("take_screenshot"), Some(S_default_question)>>
    ELSE IF intent = "open_application" THEN <<Some("open_application"), Some(text)>>
    ELSE <<Absent, Absent>>

\* sum(1 for keyword in keywords if keyword in text_lower)
Matches(keywords, text) ==
    Cardinality({i \in 1..Len(keywords) : str_in(keywords[i], text)})

\* the rounding of the float sum (k / n) * 0.4 [+ bonus] [+ 0.3] + boost:
\* +1 where the double it yields lies above the double of the decimal sum,
\* -1 where it lies below
RoundingExcess(name, k, bonus, pattern) ==
    IF name = "take_screenshot_and_analyze"
    THEN IF <<k, bonus, pattern>> \in
              {<<0, TRUE, FALSE>>, <<2, FALSE, FALSE>>, <<2, FALSE, TRUE>>,
               <<3, FALSE, FALSE>>, <<5, TRUE, FALSE>>, <<6, TRUE, FALSE>>,
               <<7, FALSE, TRUE>>, <<8, FALSE, FALSE>>} THEN 1
         ELSE IF <<k, bonus, pattern>> \in {<<0, TRUE, TRUE>>, <<8, FALSE, TRUE>>} THEN -1
         ELSE 0
    ELSE IF name = "take_screenshot"
    THEN IF <<k, pattern>> \in {<<1, FALSE>>, <<4, FALSE>>, <<6, TRUE>>, <<7, FALSE>>} THEN 1
         ELSE IF <<k, pattern>> \in {<<1, TRUE>>, <<8, TRUE>>} THEN -1
         ELSE 0
    ELSE IF name = "open_application"
    THEN IF <<k, bonus, pattern>> \in
              {<<2, TRUE, TRUE>>, <<3, FALSE, FALSE>>, <<3, FALSE, TRUE>>,
               <<3, TRUE, FALSE>>} THEN 1
         ELSE IF <<k, bonus, pattern>> \in {<<0, FALSE, TRUE>>, <<0, TRUE, FALSE>>} THEN -1
         ELSE 0
    ELSE 0

\* the confidence the loop body of _rule_based_classification computes for
\* one intent definition
IntentConfidence(intent_config, text_lower) ==
    LET keywords == intent_config.keywords
        keyword_matches == Matches(keywords, text_lower)
        base == IF Len(keywords) > 0
                THEN (keyword_matches * 4000) \div Len(keywords) ELSE 0
        bonus ==
            IF intent_config.name = "take_screenshot_and_analyze"
            THEN Matches(intent_config.analysis_keywords, text_lower) > 0
                 /\ keyword_matches > 0
            ELSE IF intent_config.name = "open_application"
            THEN Matches(intent_config.app_keywords, text_lower) > 0
                 \/ Matches(intent_config.common_apps, text_lower) > 0
            ELSE FALSE
        bonus_value ==
            IF ~bonus THEN 0
            ELSE IF intent_config.name = "take_screenshot_and_analyze" THEN 4000 ELSE 3000
        pattern == \E i \in 1..Len(intent_config.patterns) :
                       re_search(intent_config.patterns[i], text_lower)
    IN  base + bonus_value + (IF pattern THEN 3000 ELSE 0)
        + intent_config.confidence_boost
        + RoundingExcess(intent_config.name, keyword_matches, bonus, pattern)

\* the loop of _rule_based_classification from definition i on
RECURSIVE BestFrom(_, _, _)
BestFrom(i, text_lower, best) ==
    IF i > Len(intent_patterns) THEN best
    ELSE LET confidence == IntentConfidence(intent_patterns[i], text_lower)
         IN  IF confidence > best.confidence
             THEN BestFrom(i + 1, text_lower,
                           [intent |-> intent_patterns[i].name,
                            confidence |-> confidence,
                            params |-> _extract_parameters(intent_patterns[i].name,
                                                           text_lower)])
             ELSE BestFrom(i + 1, text_lower, best)

Min(a, b) == IF a < b THEN a ELSE b
Max(a, b) == IF a > b THEN a ELSE b

\* a scorer whose default candidate starts without the floor confidence
_rule_based_classification_noFloor(text_lower) ==
    LET best == BestFrom(1, text_lower,
                         [intent |-> "chat", confidence |-> 0, params |-> NoParams])
        aq == _generate_action_query(best.intent, text_lower)
    IN  [intent |-> best.intent,
         confidence |-> Min(best.confidence, 10000),
         action |-> aq[1],
         query |-> aq[2],
         parameters |-> best.params,
         method |-> "rule_based",
         llm_reasoning |-> Absent]

_rule_based_classification(text_lower) ==
    LET best == BestFrom(1, text_lower,
                         [intent |-> "chat", confidence |-> 3000, params |-> NoParams])
        aq == _generate_action_query(best.intent, text_lower)
    IN  [intent |-> best.intent,
         confidence |-> Min(best.confidence, 10000),
         action |-> aq[1],
         query |-> aq[2],
         parameters |-> best.params,
         method |-> "rule_based",
         llm_reasoning |-> Absent]

\* ------------------------------------------------------------ LLM replies
\* a JSON number, and a JSON value that is not a number (a string, null)
Num(v) == [num |-> TRUE, v |-> v]
NotNum == [num |-> FALSE, v |-> 0]

S_because == <<"b", "e", "c", "a", "u", "s", "e">>

\* intent labels an LLM may answer with: the four of the prompt and one
\* that is not among them
LlmLabels ==
    {"chat", "take_screenshot", "take_screenshot_and_analyze", "open_application",
     "screenshot"}

\* what LLMService.simple_chat may do: raise; return the text of a JSON
\* object (each key present or not); return text that json.loads accepts but
\* that is no object, or no text at all; return text that is not JSON
Reply(kind, intent, confidence, reasoning, extracted_info, text) ==
    [kind |-> kind, intent |-> intent, confidence |-> confidence,
     reasoning |-> reasoning, extracted_info |-> extracted_info, text |-> text]

JsonObjects ==
    {Reply("object", i, c, r, x, <<>>) :
        i \in {Absent} \cup {Some(l) : l \in LlmLabels},
        c \in {Absent, Some(Num(6000)), Some(Num(6500)), Some(Num(9500)),
               Some(Num(15000)), Some(NotNum)},
        r \in {Absent, Some(S_because)},
        x \in {Absent, Some([NoParams EXCEPT !.application_name = Some(S_notion)])}}

ReplyTexts ==
    {S_take_screenshot_and_analyze, S_screenshot_dotstar_analyz, S_screenshot,
     S_open_application, S_weather}

Replies ==
    {Reply("raise", Absent, Absent, Absent, Absent, <<>>),
     Reply("other", Absent, Absent, Absent, Absent, <<>>)}
    \cup JsonObjects
    \cup {Reply("text", Absent, Absent, Absent, Absent, t) : t \in ReplyTexts}

\* dict.get(key, default)
Get(opt, default) == IF opt = Absent THEN default ELSE opt[1]

\* a text search that looks for the plain screenshot label first
_extract_intent_from_text_shotFirst(response) ==
    LET response_lower == str_lower(response)
    IN  IF str_in(S_take_screenshot, response_lower)
           \/ str_in(S_screenshot, response_lower)
        THEN "take_screenshot"
        ELSE IF str_in(S_take_screenshot_and_analyze, response_lower)
                \/ str_in(S_screenshot_dotstar_analyz, response_lower)
        THEN "take_screenshot_and_analyze"
        ELSE IF str_in(S_open_application, response_lower)
                \/ str_in(S_open_dotstar_app, response_lower)
        THEN "open_application"
        ELSE "chat"

_extract_intent_from_text(response) ==
    LET response_lower == str_lower(response)
    IN  IF str_in(S_take_screenshot_and_analyze, response_lower)
           \/ str_in(S_screenshot_dotstar_analyz, response_lower)
        THEN "take_screenshot_and_analyze"
        ELSE IF str_in(S_take_screenshot, response_lower)
                \/ str_in(S_screenshot, response_lower)
        THEN "take_screenshot"
        ELSE IF str_in(S_open_application, response_lower)
                \/ str_in(S_open_dotstar_app, response_lower)
        THEN "open_application"
        ELSE "chat"

\* _llm_based_classification: the verdict, or Absent when it raises
_llm_based_classification(reply) ==
    IF reply.kind = "object"
    THEN Some([intent |-> Get(reply.intent, "chat"),
               confidence |-> Get(reply.confidence, Num(7000)),
               reasoning |-> Get(reply.reasoning, <<>>),
               extracted_info |-> Get(reply.extracted_info, NoParams),
               method |-> "llm_based"])
    ELSE IF reply.kind = "text"
    THEN Some([intent |-> _extract_intent_from_text(reply.text),
               confidence |-> Num(6000),
               reasoning |-> reply.text,
               extracted_info |-> NoParams,
               method |-> "llm_text_based"])
    ELSE Absent

\* a reconciliation that takes the higher confidence without the agreement
\* boost
_combine_classifications_noBoost(rule_result, llm_result, original_text) ==
    IF ~llm_result.confidence.num THEN Absent
    ELSE IF rule_result.intent = llm_result.intent
    THEN Some([intent |-> rule_result.intent,
               confidence |->
                   Min(Max(rule_result.confidence, llm_result.confidence.v), 10000),
               action |-> rule_result.action,
               query |-> rule_result.query,
               parameters |-> rule_result.parameters,
               method |-> "combined",
               llm_reasoning |-> Some(llm_result.reasoning)])
    ELSE IF llm_result.confidence.v > rule_result.confidence
    THEN LET aq == _generate_action_query(llm_result.intent, str_lower(original_text))
         IN  Some([intent |-> llm_result.intent,
                   confidence |-> llm_result.confidence.v,
                   action |-> aq[1],
                   query |-> aq[2],
                   parameters |-> llm_result.extracted_info,
                   method |-> "llm_preferred",
                   llm_reasoning |-> Some(llm_result.reasoning)])
    ELSE Some([rule_result EXCEPT !.method = "rule_preferred",
                                  !.llm_reasoning = Some(llm_result.reasoning)])

\* a reconciliation in which the LLM verdict also wins a tie
_combine_classifications_tieToLlm(rule_result, llm_result, original_text) ==
    IF ~llm_result.confidence.num THEN Absent
    ELSE IF rule_result.intent = llm_result.intent
    THEN Some([intent |-> rule_result.intent,
               confidence |->
                   Min(Max(rule_result.confidence, llm_result.confidence.v) + 1000,
                       10000),
               action |-> rule_result.action,
               query |-> rule_result.query,
               parameters |-> rule_result.parameters,
               method |-> "combined",
               llm_reasoning |-> Some(llm_result.reasoning)])
    ELSE IF llm_result.confidence.v >= rule_result.confidence
    THEN LET aq == _generate_action_query(llm_result.intent, str_lower(original_text))
         IN  Some([intent |-> llm_result.intent,
                   confidence |-> llm_result.confidence.v,
                   action |-> aq[1],
                   query |-> aq[2],
                   parameters |-> llm_result.extracted_info,
                   method |-> "llm_preferred",
                   llm_reasoning |-> Some(llm_result.reasoning)])
    ELSE Some([rule_result EXCEPT !.method = "rule_preferred",
                                  !.llm_reasoning = Some(llm_result.reasoning)])

\* a reconciliation that drops what the LLM extracted
_combine_classifications_dropInfo(rule_result, llm_result, original_text) ==
    IF ~llm_result.confidence.num THEN Absent
    ELSE IF rule_result.intent = llm_result.intent
    THEN Some([intent |-> rule_result.intent,
               confidence |->
                   Min(Max(rule_result.confidence, llm_result.confidence.v) + 1000,
                       10000),
               action |-> rule_result.action,
               query |-> rule_result.query,
               parameters |-> rule_result.parameters,
               method |-> "combined",
               llm_reasoning |-> Some(llm_result.reasoning)])
    ELSE IF llm_result.confidence.v > rule_result.confidence
    THEN LET aq == _generate_action_query(llm_result.intent, str_lower(original_text))
         IN  Some([intent |-> llm_result.intent,
                   confidence |-> llm_result.confidence.v,
                   action |-> aq[1],
                   query |-> aq[2],
                   parameters |-> NoParams,
                   method |-> "llm_preferred",
                   llm_reasoning |-> Some(llm_result.reasoning)])
    ELSE Some([rule_result EXCEPT !.method = "rule_preferred",
                                  !.llm_reasoning = Some(llm_result.reasoning)])

\* _combine_classifications: the verdict, or Absent when comparing the
\* confidences raises TypeError; the sum max(...) + 0.1 is taken exactly, the
\* rounding of that one addition is not tracked
_combine_classifications(rule_result, llm_result, original_text) ==
    IF ~llm_result.confidence.num THEN Absent
    ELSE IF rule_result.intent = llm_result.intent
    THEN Some([intent |-> rule_result.intent,
               confidence |->
                   Min(Max(rule_result.confidence, llm_result.confidence.v) + 1000,
                       10000),
               action |-> rule_result.action,
               query |-> rule_result.query,
               parameters |-> rule_result.parameters,
               method |-> "combined",
               llm_reasoning |-> Some(llm_result.reasoning)])
    ELSE IF llm_result.confidence.v > rule_result.confidence
    THEN LET aq == _generate_action_query(llm_result.intent, str_lower(original_text))
         IN  Some([intent |-> llm_result.intent,
                   confidence |-> llm_result.confidence.v,
                   action |-> aq[1],
                   query |-> aq[2],
                   parameters |-> llm_result.extracted_info,
                   method |-> "llm_preferred",
                   llm_reasoning |-> Some(llm_result.reasoning)])
    ELSE Some([rule_result EXCEPT !.method = "rule_preferred",
                                  !.llm_reasoning = Some(llm_result.reasoning)])

\* LLMService.is_available
LLMService_is_available == TRUE

\* s[:n]
str_prefix(s, n) == SubSeq(s, 1, Min(n, Len(s)))

\* the user message that _llm_based_classification hands to simple_chat
UserMessage(text) == S_classify_head \o text \o S_classify_tail

\* the list demo_responses of _get_demo_response
demo_responses(user_message) ==
    <<S_demo1_head \o str_prefix(user_message, 50) \o S_demo1_tail,
      S_demo2,
      S_demo3_head \o str_prefix(user_message, 30) \o S_demo3_tail,
      S_demo4,
      S_demo5_head \o str_prefix(user_message, 40) \o S_demo5_tail>>

\* what simple_chat returns without a client: the entry of demo_responses
\* that random.choice picks
DemoReply(text, choice) ==
    Reply("text", Absent, Absent, Absent, Absent,
          demo_responses(UserMessage(text))[choice])

\* an IntentRecognitionService without llm_service, with an LLMService in
\* demo mode, and with an LLMService that has a client
Services ==
    {[llm_service |-> FALSE, client |-> FALSE],
     [llm_service |-> TRUE, client |-> FALSE],
     [llm_service |-> TRUE, client |-> TRUE]}

\* what classify_intent hands to its caller: a verdict, or an exception
Outcome(raised, verdict) == [raised |-> raised, verdict |-> verdict]

\* a try block whose except clause lets the exception of the LLM phase
\* through
LlmPhase_noCatch(rule_based_result, reply, text) ==
    LET llm_result == _llm_based_classification(reply)
    IN  IF llm_result = Absent THEN Outcome(TRUE, Absent)
        ELSE LET combined == _combine_classifications(rule_based_result,
                                                      llm_result[1], text)
             IN  IF combined = Absent THEN Outcome(TRUE, Absent)
                 ELSE Outcome(FALSE, combined)

\* the try block of classify_intent and its except clause
LlmPhase(rule_based_result, reply, text) ==
    LET llm_result == _llm_based_classification(reply)
    IN  IF llm_result = Absent THEN Outcome(FALSE, Some(rule_based_result))
        ELSE LET combined == _combine_classifications(rule_based_result,
                                                      llm_result[1], text)
             IN  IF combined = Absent THEN Outcome(FALSE, Some(rule_based_result))
                 ELSE Outcome(FALSE, combined)

NoCall == [pc |-> "idle", text |-> <<>>, use_llm |-> FALSE, rule |-> Absent,
           reply |-> Absent, llm |-> Absent, outcome |-> Outcome(FALSE, Absent)]

\* utterances: up to MaxWords entries of the vocabulary, joined by spaces
Vocabulary ==
    {S_take, S_screenshot, S_screen_shot, S_explain, S_open, S_Notion, S_reopen,
     S_app, S_weather, S_capture_my_screen, S_empty}

Texts == {str_join(ws) : ws \in SeqsUpTo(Vocabulary, MaxWords)}

\* lines 82-85 of classify_intent on each utterance, computed once
RuleBased ==
    [text \in Texts |-> _rule_based_classification(str_strip(str_lower(text)))]

\* classify_intent up to the await of the LLM, or to its return
Called(text, use_llm) ==
    LET rule_based_result == RuleBased[text]
        c == [NoCall EXCEPT !.text = text, !.use_llm = use_llm,
                            !.rule = Some(rule_based_result)]
    IN  IF use_llm /\ svc.llm_service /\ LLMService_is_available
        THEN [c EXCEPT !.pc = "await_llm"]
        ELSE [c EXCEPT !.pc = "done",
                       !.outcome = Outcome(FALSE, Some(rule_based_result))]

classify_intent_call(text, use_llm) ==
    /\ ci.pc = "idle"
    /\ ci' = Called(text, use_llm)
    /\ UNCHANGED <<svc, prev, router_vars, ad>>

\* simple_chat returns what the model behind the client replied, or raises,
\* and classify_intent runs to its return
classify_intent_llm(reply) ==
    /\ ci.pc = "await_llm"
    /\ svc.client
    /\ ci' = [ci EXCEPT !.pc = "done",
                        !.reply = Some(reply),
                        !.llm = _llm_based_classification(reply),
                        !.outcome = LlmPhase(ci.rule[1], reply, ci.text)]
    /\ UNCHANGED <<svc, prev, router_vars, ad>>

\* simple_chat returns a demo response, and classify_intent runs to its
\* return
classify_intent_demo(choice) ==
    /\ ci.pc = "await_llm"
    /\ ~svc.client
    /\ LET reply == DemoReply(ci.text, choice)
       IN  ci' = [ci EXCEPT !.pc = "done",
                           !.reply = Some(reply),
                           !.llm = _llm_based_classification(reply),
                           !.outcome = LlmPhase(ci.rule[1], reply, ci.text)]
    /\ UNCHANGED <<svc, prev, router_vars, ad>>

\* the caller has taken the verdict and calls classify_intent once more with
\* the same text and use_llm
classify_intent_again ==
    /\ ci.pc = "done"
    /\ prev = Absent
    /\ prev' = Some(ci.outcome)
    /\ ci' = Called(ci.text, ci.use_llm)
    /\ UNCHANGED <<svc, router_vars, ad>>

\* the caller has taken the verdict
classify_intent_done ==
    /\ ci.pc = "done"
    /\ ci' = NoCall
    /\ prev' = Absent
    /\ UNCHANGED <<svc, router_vars, ad>>

\* ------------------------------------------------------ provider adapters
\* the adapter classes
Variants == {"openai", "gemini", "ollama"}

\* config["api_key"]: not there (or None), the empty string, a key
ApiKeys == {"missing", "empty", "set"}

\* how the connectivity probe of initialize() ends: the backend answers as
\* expected; the host cannot be reached; the request times out; the backend
\* answers with a status other than 200; the answer is 200 with a body that
\* is not what the adapter reads
ProbeOutcomes == {"ok", "unreachable", "timeout", "non200", "bad_body"}

\* config["base_url"]: there or not
BaseUrls == {"unset", "set"}

\* the model names that the registry of a local backend may list
ModelLists == {<<>>, <<"llama2">>}

\* the adapter after __init__
NewAdapter(variant, api_key, base_url) ==
    [variant |-> variant,
     api_key |-> api_key,
     base_url |-> base_url,
     client |-> FALSE,
     is_initialized |-> FALSE,
     available_models |-> <<>>,
     available |-> "none",
     pc |-> "idle",
     contacted |-> FALSE,
     probe |-> "none",
     ret |-> "none",
     succeeded |-> FALSE,
     call |-> Absent,
     request |-> Absent,
     result |-> "none",
     handles |-> 0,
     created_in |-> "none",
     stream |-> "none",
     conn |-> "none"]

\* the adapter has made one more network client handle (AsyncOpenAI,
\* GenerativeModel, aiohttp.ClientSession) in the method named; handles
\* counts them over the adapter's lifetime, up to MaxHandles
NewHandle(a, method) ==
    [a EXCEPT !.handles = Min(a.handles + 1, MaxHandles), !.created_in = method]

\* BaseLLMProvider.validate_config(["api_key"])
validate_config(api_key) == api_key = "set"

\* initialize() has returned value; succeeded remembers a return of true
Returned(a, value) ==
    [a EXCEPT !.pc = "idle", !.ret = value,
              !.succeeded = a.succeeded \/ value = "true"]

\* the call of initialize() as it starts: nothing contacted yet
Entered(a) == [a EXCEPT !.contacted = FALSE, !.probe = "none", !.ret = "none"]

\* OpenAIProvider.initialize up to the await of models.list(); constructed
\* is false when AsyncOpenAI(...) raises
OpenAIProvider_initialize(constructed) ==
    /\ ad.variant = "openai"
    /\ ad.pc = "idle"
    /\ ad' = IF ~validate_config(ad.api_key) THEN Returned(Entered(ad), "false")
             ELSE IF ~constructed THEN Returned(Entered(ad), "false")
             ELSE [NewHandle(Entered(ad), "initialize") EXCEPT
                      !.client = TRUE, !.pc = "probe"]
    /\ UNCHANGED <<router_vars, intent_vars>>

\* an initialize() whose except clause lets the error of the probe through
OpenAIProvider_probe_noCatch(outcome) ==
    /\ ad.variant = "openai"
    /\ ad.pc = "probe"
    /\ ad' = Returned([ad EXCEPT !.contacted = TRUE, !.probe = outcome],
                      IF outcome = "ok" THEN "true" ELSE "raised")
    /\ UNCHANGED <<router_vars, intent_vars>>

\* OpenAIProvider.initialize from the return of models.list() on: every
\* outcome but "ok" is an exception of the client
OpenAIProvider_probe(outcome) ==
    /\ ad.variant = "openai"
    /\ ad.pc = "probe"
    /\ ad' = Returned([ad EXCEPT !.contacted = TRUE, !.probe = outcome],
                      IF outcome = "ok" THEN "true" ELSE "false")
    /\ UNCHANGED <<router_vars, intent_vars>>

\* GeminiProvider.initialize up to the await of generate_content_async;
\* constructed is false when configure or GenerativeModel(...) raises
GeminiProvider_initialize(constructed) ==
    /\ ad.variant = "gemini"
    /\ ad.pc = "idle"
    /\ ad' = IF ~validate_config(ad.api_key) THEN Returned(Entered(ad), "false")
             ELSE IF ~constructed THEN Returned(Entered(ad), "false")
             ELSE [NewHandle(Entered(ad), "initialize") EXCEPT
                      !.client = TRUE, !.pc = "probe"]
    /\ UNCHANGED <<router_vars, intent_vars>>

\* GeminiProvider._test_connection and the return of initialize
GeminiProvider_probe(outcome) ==
    /\ ad.variant = "gemini"
    /\ ad.pc = "probe"
    /\ ad' = Returned([ad EXCEPT !.contacted = TRUE, !.probe = outcome],
                      IF outcome = "ok" THEN "true" ELSE "false")
    /\ UNCHANGED <<router_vars, intent_vars>>

\* OllamaProvider.initialize up to the await of session.get
OllamaProvider_initialize ==
    /\ ad.variant = "ollama"
    /\ ad.pc = "idle"
    /\ ad' = [NewHandle(Entered(ad), "initialize") EXCEPT !.pc = "probe"]
    /\ UNCHANGED <<router_vars, intent_vars>>

\* OllamaProvider.initialize from the answer to GET /api/tags on; models
\* are the names in the body of a 200 answer
OllamaProvider_probe(outcome, models) ==
    /\ ad.variant = "ollama"
    /\ ad.pc = "probe"
    /\ LET a == [ad EXCEPT !.contacted = TRUE, !.probe = outcome]
       IN  ad' = IF outcome = "ok"
                 THEN Returned([a EXCEPT !.available_models = models,
                                         !.is_initialized = TRUE], "true")
                 ELSE Returned(a, "false")
    /\ UNCHANGED <<router_vars, intent_vars>>

OpenAIProvider_is_available(a) == a.client /\ a.api_key # "missing"

GeminiProvider_is_available(a) == a.client /\ a.api_key # "missing"

OllamaProvider_is_available(a) == a.is_initialized

\* is_available() of the adapter's class
is_available(a) ==
    IF a.variant = "openai" THEN OpenAIProvider_is_available(a)
    ELSE IF a.variant = "gemini" THEN GeminiProvider_is_available(a)
    ELSE OllamaProvider_is_available(a)

\* config.get("max_tokens", 1000) and config.get("temperature", 0.7) of an
\* adapter built without these keys; temperatures are in tenths
default_max_tokens == 1000

default_temperature == 7

\* the max_tokens and the temperature a caller may pass: None or a number
MaxTokensArgs == {Absent, Some(1), Some(256)}

TemperatureArgs == {Absent, Some(0), Some(7), Some(20)}

\* value or default, on an optional number: None and 0 are falsy
PyOr(value, default) ==
    IF value = Absent \/ value[1] = 0 THEN default ELSE value[1]

\* the test `if not self.client` (`if not self.is_initialized`) that opens
\* chat_completion and stream_completion
NotInitialized(a) ==
    IF a.variant = "ollama" THEN ~a.is_initialized ELSE ~a.client

\* chat_completion of an adapter up to the await of the backend: the
\* request it sends, or the exception of an adapter that is not initialized
adapter_chat_completion(max_tokens, temperature) ==
    /\ ad.pc = "idle"
    /\ LET a == [ad EXCEPT !.call = Some([max_tokens |-> max_tokens,
                                          temperature |-> temperature]),
                           !.request = Absent,
                           !.result = "none"]
           b == IF ad.variant = "ollama" THEN NewHandle(a, "chat_completion") ELSE a
       IN  ad' = IF NotInitialized(ad)
                 THEN [a EXCEPT !.result = "raised"]
                 ELSE [b EXCEPT
                          !.pc = "chat",
                          !.request =
                              Some([max_tokens |-> PyOr(max_tokens, default_max_tokens),
                                    temperature |-> PyOr(temperature,
                                                         default_temperature)])]
    /\ UNCHANGED <<router_vars, intent_vars>>

\* the backend answers the request of chat_completion, or the call fails
\* and chat_completion raises its API error
adapter_chat_completion_end(ok) ==
    /\ ad.pc = "chat"
    /\ ad' = [ad EXCEPT !.pc = "idle",
                        !.result = IF ok THEN "returned" ELSE "raised"]
    /\ UNCHANGED <<router_vars, intent_vars>>

\* what happens to the connection of a stream when the generator of
\* stream_completion is left: OllamaProvider holds session and response in
\* `async with` blocks, which release them on every way out; OpenAIProvider
\* and GeminiProvider have no statement that closes the stream object, so
\* the connection is released or not as the client library finalizes it
ConnAfterExit(a) ==
    IF a.variant = "ollama" THEN {"released"} ELSE {"open", "released"}

\* stream_completion from the consumer's first request for a chunk up to the
\* await of the backend's first answer; connected is false when the request
\* fails before there is a response
adapter_stream_completion(connected) ==
    /\ ad.pc = "idle"
    /\ LET a == [ad EXCEPT !.call = Absent, !.request = Absent, !.result = "none",
                           !.stream = "none", !.conn = "none"]
           b == IF ad.variant = "ollama" THEN NewHandle(a, "stream_completion") ELSE a
       IN  ad' = IF NotInitialized(ad)
                 THEN [a EXCEPT !.stream = "failed"]
                 ELSE IF ~connected
                 THEN [b EXCEPT !.stream = "failed"]
                 ELSE [b EXCEPT !.pc = "stream_wait", !.stream = "open",
                                !.conn = "open"]
    /\ UNCHANGED <<router_vars, intent_vars>>

\* the generator runs on, from the await of the first answer or, when the
\* consumer asks for the next chunk, from its yield: the loop `async for`
\* gets a chunk and yields it, or the backend's sequence ends (a response
\* read to its end is released by the transport), or reading it raises
adapter_stream_next(event, conn) ==
    /\ ad.pc \in {"stream_wait", "stream_yield"}
    /\ ad' = IF event = "chunk"
             THEN [ad EXCEPT !.pc = "stream_yield"]
             ELSE IF event = "end"
             THEN [ad EXCEPT !.pc = "idle", !.stream = "ended", !.conn = "released"]
             ELSE [ad EXCEPT !.pc = "idle", !.stream = "failed", !.conn = conn]
    /\ event = "error" => conn \in ConnAfterExit(ad)
    /\ event # "error" => conn = "released"
    /\ UNCHANGED <<router_vars, intent_vars>>

\* the consumer stops before the sequence ends: the generator is closed at
\* its yield (aclose() by the consumer, or by the event loop once the
\* generator is dropped), GeneratorExit passes `except Exception`
adapter_stream_aclose(conn) ==
    /\ ad.pc = "stream_yield"
    /\ conn \in ConnAfterExit(ad)
    /\ ad' = [ad EXCEPT !.pc = "idle", !.stream = "closed", !.conn = conn]
    /\ UNCHANGED <<router_vars, intent_vars>>

\* a call of is_available(), at any time, and what it returns
adapter_is_available ==
    /\ ad' = [ad EXCEPT !.available = IF is_available(ad) THEN "true" ELSE "false"]
    /\ UNCHANGED <<router_vars, intent_vars>>

\* ------------------------------------------------------------ specification
\* the provider router after ProviderManager.__init__, beside an intent
\* recognition service that is not called
Init ==
    /\ config \in Configs
    /\ providers = <<>>
    /\ active_provider = None
    /\ fallback_order = <<>>
    /\ initialized = FALSE
    /\ ret = [op |-> "__init__", arg |-> None, value |-> None]
    /\ cc = Idle
    /\ svc = [llm_service |-> FALSE, client |-> FALSE]
    /\ ci = NoCall
    /\ prev = Absent
    /\ ad = NewAdapter("openai", "missing", "unset")

Next ==
    \/ \E outcome \in [ClassNames -> InitOutcomes] : initialize(outcome)
    \/ \E provider_name \in ProviderNames : set_active_provider(provider_name)
    \/ \E provider \in ProviderNames \cup {None}, use_fallback \in BOOLEAN :
           chat_completion_call(provider, use_fallback)
    \/ \E ok \in BOOLEAN : chat_completion_target(ok)
    \/ \E ok \in BOOLEAN : chat_completion_fallback(ok)
    \/ chat_completion_done

Spec == Init /\ [][Next]_vars

\* the intent recognition service, beside a router that is not called
IntentInit ==
    /\ config = [enabled |-> {}, preferred_provider |-> "openai",
                 fallback_order |-> <<>>]
    /\ providers = <<>>
    /\ active_provider = None
    /\ fallback_order = <<>>
    /\ initialized = FALSE
    /\ ret = [op |-> "__init__", arg |-> None, value |-> None]
    /\ cc = Idle
    /\ svc \in Services
    /\ ci = NoCall
    /\ prev = Absent
    /\ ad = NewAdapter("openai", "missing", "unset")

IntentNext ==
    \/ \E text \in Texts, use_llm \in BOOLEAN : classify_intent_call(text, use_llm)
    \/ \E reply \in Replies : classify_intent_llm(reply)
    \/ \E choice \in 1..5 : classify_intent_demo(choice)
    \/ classify_intent_done

IntentSpec == IntentInit /\ [][IntentNext]_vars

\* a caller that repeats each call of classify_intent once, on a service
\* without llm_service or with an LLMService in demo mode
RepeatInit ==
    /\ config = [enabled |-> {}, preferred_provider |-> "openai",
                 fallback_order |-> <<>>]
    /\ providers = <<>>
    /\ active_provider = None
    /\ fallback_order = <<>>
    /\ initialized = FALSE
    /\ ret = [op |-> "__init__", arg |-> None, value |-> None]
    /\ cc = Idle
    /\ svc \in {service \in Services : ~service.client}
    /\ ci = NoCall
    /\ prev = Absent
    /\ ad = NewAdapter("openai", "missing", "unset")

RepeatNext ==
    \/ \E text \in Texts, use_llm \in BOOLEAN : classify_intent_call(text, use_llm)
    \/ \E choice \in 1..5 : classify_intent_demo(choice)
    \/ classify_intent_again
    \/ classify_intent_done

RepeatSpec == RepeatInit /\ [][RepeatNext]_vars

\* one adapter of any class, constructed with any api_key setting, beside a
\* router and an intent recognition service that are not called
AdapterInit ==
    /\ config = [enabled |-> {}, preferred_provider |-> "openai",
                 fallback_order |-> <<>>]
    /\ providers = <<>>
    /\ active_provider = None
    /\ fallback_order = <<>>
    /\ initialized = FALSE
    /\ ret = [op |-> "__init__", arg |-> None, value |-> None]
    /\ cc = Idle
    /\ svc = [llm_service |-> FALSE, client |-> FALSE]
    /\ ci = NoCall
    /\ prev = Absent
    /\ ad \in {NewAdapter(variant, api_key, base_url) :
                   variant \in Variants, api_key \in ApiKeys, base_url \in BaseUrls}

AdapterNext ==
    \/ \E constructed \in BOOLEAN : OpenAIProvider_initialize(constructed)
    \/ \E outcome \in ProbeOutcomes : OpenAIProvider_probe(outcome)
    \/ \E constructed \in BOOLEAN : GeminiProvider_initialize(constructed)
    \/ \E outcome \in ProbeOutcomes : GeminiProvider_probe(outcome)
    \/ OllamaProvider_initialize
    \/ \E outcome \in ProbeOutcomes, models \in ModelLists :
           OllamaProvider_probe(outcome, models)
    \/ adapter_is_available
    \/ \E max_tokens \in MaxTokensArgs, temperature \in TemperatureArgs :
           adapter_chat_completion(max_tokens, temperature)
    \/ \E ok \in BOOLEAN : adapter_chat_completion_end(ok)
    \/ \E connected \in BOOLEAN : adapter_stream_completion(connected)
    \/ \E event \in {"chunk", "end", "error"}, conn \in {"open", "released"} :
           adapter_stream_next(event, conn)
    \/ \E conn \in {"open", "released"} : adapter_stream_aclose(conn)

AdapterSpec == AdapterInit /\ [][AdapterNext]_vars

\* ================================================================== claims
IsPrefix(a, b) ==
    /\ Len(a) <= Len(b)
    /\ \A i \in 1..Len(a) : a[i] = b[i]

\* position of name p in provider_classes (registration order)
ClassIndex(p) == CHOOSE i \in 1..Len(provider_classes) : provider_classes[i] = p

\* the dispatch in flight was called without a provider and with fallback
FallbackDispatch == cc.pc # "idle" /\ cc.provider = None /\ cc.use_fallback

\* C1: after initialize and any set_active_provider calls, active_provider
\* is None or a key of providers and does not occur in fallback_order; right
\* after a successful set_active_provider(name), name is active and absent
\* from fallback_order.
C1_ActiveRegisteredNotFallback ==
    /\ active_provider = None \/ active_provider \in Range(providers)
    /\ active_provider \notin Range(fallback_order)
    /\ (ret.op = "set_active_provider" /\ ret.value = TRUE)
          => /\ active_provider = ret.arg
             /\ ret.arg \notin Range(fallback_order)

\* a successful switch to a provider that was a fallback candidate
C1_Witness ==
    /\ ret.op = "set_active_provider" /\ ret.value = TRUE
    /\ ret.arg \in Range(SetupFallback(config, providers,
                                       SetupActive(config, providers, None)))
    /\ fallback_order # <<>>

\* C2: without explicit provider and with fallback enabled, when the target
\* and every fallback that was tried have failed, the error raised is the
\* error of the original target.
C2_OriginalErrorRaised ==
    (FallbackDispatch /\ cc.pc = "done" /\ cc.calls # <<>> /\ cc.failed = cc.calls)
        => /\ cc.calls[1] = cc.target
           /\ cc.result = Result("raised", cc.target)

\* the target and two fallbacks have all failed
C2_Witness ==
    /\ FallbackDispatch /\ cc.pc = "done"
    /\ Len(cc.calls) = 3 /\ cc.failed = cc.calls
    /\ cc.calls[3] # cc.target

\* C3: with an explicit provider, or with use_fallback false, at most the
\* target adapter is invoked, and when it fails its error is what the caller
\* gets.
C3_NoFallbackWhenExplicit ==
    (cc.pc # "idle" /\ (cc.provider # None \/ ~cc.use_fallback))
        => /\ Len(cc.calls) <= 1
           /\ cc.failed # <<>>
                 => /\ cc.pc = "done"
                    /\ cc.calls = <<cc.target>>
                    /\ cc.result = Result("raised", cc.target)

\* an explicitly named provider failed while another one was registered as a
\* fallback
C3_Witness ==
    /\ cc.provider # None /\ cc.use_fallback
    /\ cc.failed = <<cc.provider>>
    /\ fallback_order # <<>>
    /\ cc.provider \notin Range(fallback_order)

\* C4: in a dispatch without explicit provider and with fallback, the
\* adapters are invoked one at a time: the target first, then the entries of
\* fallback_order (as it stands when the target has failed) in list order,
\* each only after all earlier ones failed; the result is that of the first
\* adapter that succeeds and nothing is invoked after it.
C4_SequentialDispatch ==
    /\ [](FallbackDispatch =>
            /\ cc.calls # <<>> => cc.calls[1] = cc.target
            /\ cc.calls # <<>> => IsPrefix(Tail(cc.calls), cc.iter)
            /\ IsPrefix(cc.failed, cc.calls)
            /\ Len(cc.calls) - Len(cc.failed) =
                   (IF cc.pc \in {"await_target", "await_fallback"}
                       \/ cc.result.kind = "returned" THEN 1 ELSE 0)
            /\ cc.result.kind = "returned"
                  => /\ cc.pc = "done"
                     /\ cc.result.by = cc.calls[Len(cc.calls)])
    /\ [][/\ (cc.pc = "await_target" /\ cc'.failed # <<>>
                 /\ cc.provider = None /\ cc.use_fallback)
              => cc'.iter = fallback_order
          /\ cc.pc = "done" => (cc' = cc \/ cc' = Idle)]_vars

\* the second fallback succeeded after the target and the first fallback
\* failed
C4_Witness ==
    /\ FallbackDispatch /\ cc.result.kind = "returned"
    /\ Len(cc.calls) = 3 /\ Len(cc.failed) = 2

\* C5: when the resolved target (the explicit provider, else the active
\* provider) is None or not registered, the dispatch ends at once with the
\* unavailable error and no adapter is invoked.
C5_UnavailableImmediately ==
    /\ []((cc.pc # "idle" /\ (cc.target = None \/ cc.target \notin Range(providers)))
            => /\ cc.pc = "done"
               /\ cc.result = Result("unavailable", None)
               /\ cc.calls = <<>>)
    /\ [][(cc.pc = "idle" /\ cc'.pc # "idle")
             => cc'.target = (IF cc'.provider # None THEN cc'.provider
                              ELSE active_provider)]_vars

\* an explicit provider that is not registered, while other providers are
\* registered and one is active
C5_Witness ==
    /\ cc.pc = "done" /\ cc.result.kind = "unavailable"
    /\ cc.provider # None
    /\ Len(providers) >= 2 /\ active_provider # None

\* C6: set_active_provider for a name that is not registered returns false
\* and changes none of active_provider, fallback_order, providers.
C6_SetActiveUnregistered ==
    [][\A name \in ProviderNames :
          (set_active_provider(name) /\ name \notin Range(providers))
              => /\ ret'.value = FALSE
                 /\ UNCHANGED <<active_provider, fallback_order, providers>>]_vars

\* an unregistered name was refused while a provider was active
C6_Witness ==
    /\ ret.op = "set_active_provider" /\ ret.value = FALSE
    /\ ret.arg \notin Range(providers)
    /\ active_provider # None /\ fallback_order # <<>>

\* C7: initialize returns true iff some enabled adapter's initialize()
\* returned true, and providers then holds exactly the enabled providers
\* whose initialize() returned true; an adapter that returns false or raises
\* is left out.
C7_InitializeResult ==
    [][~initialized =>
          \A outcome \in [ClassNames -> InitOutcomes] :
             initialize(outcome)
                 => /\ ret'.op = "initialize"
                    /\ ret'.value = (\E p \in config.enabled : outcome[p] = "true")
                    /\ Range(providers')
                           = {p \in config.enabled : outcome[p] = "true"}]_vars

\* initialize returned true although an enabled adapter did not initialize
C7_Witness ==
    /\ ret.op = "initialize" /\ ret.value = TRUE
    /\ Len(providers) < Cardinality(config.enabled)
    /\ providers # <<>>

\* C8: after initialize the active provider is the preferred one iff it
\* initialized, else the first initialized one in registration order, else
\* None; fallback_order is the configured list restricted to initialized
\* providers other than the active one, in configured order.
C8_ProviderOrder ==
    [][(~initialized /\ initialized')
          => /\ active_provider' =
                   (IF config.preferred_provider \in Range(providers')
                    THEN config.preferred_provider
                    ELSE IF providers' = <<>> THEN None
                    ELSE CHOOSE p \in Range(providers') :
                           \A q \in Range(providers') : ClassIndex(p) <= ClassIndex(q))
             /\ fallback_order' =
                   Filter(config.fallback_order,
                          Range(providers') \ {active_provider'})]_vars

\* the preferred provider did not initialize and two others did
C8_Witness ==
    /\ ret.op = "initialize"
    /\ config.preferred_provider \in ClassNames
    /\ config.preferred_provider \notin Range(providers)
    /\ Len(providers) = 2
    /\ fallback_order # <<>>

\* the rule-based verdict of the call in flight
RuleVerdict == ci.rule[1]

\* the LLM phase of the call in flight failed: simple_chat raised, or its
\* reply is JSON but no object, or the confidence in it is not a number
LlmPhaseFailed ==
    /\ ci.reply # Absent
    /\ \/ ci.reply[1].kind \in {"raise", "other"}
       \/ /\ ci.reply[1].kind = "object"
          /\ ci.reply[1].confidence # Absent
          /\ ~ci.reply[1].confidence[1].num

\* C9: classify_intent never raises, and when the LLM phase fails it returns
\* the intent, confidence, action and query of the rule-based verdict.
C9_LlmFailureGivesRuleVerdict ==
    ci.pc = "done"
        => /\ ~ci.outcome.raised
           /\ ci.outcome.verdict # Absent
           /\ LlmPhaseFailed
                 => /\ ci.outcome.verdict[1].intent = RuleVerdict.intent
                    /\ ci.outcome.verdict[1].confidence = RuleVerdict.confidence
                    /\ ci.outcome.verdict[1].action = RuleVerdict.action
                    /\ ci.outcome.verdict[1].query = RuleVerdict.query

\* simple_chat raised for an utterance that the rules do not take for chat
C9_Witness ==
    /\ ci.pc = "done"
    /\ ci.reply # Absent /\ ci.reply[1].kind = "raise"
    /\ RuleVerdict.intent = "open_application"
    /\ ci.outcome.verdict # Absent

\* C10: when the rule-based and the LLM verdict have the same intent, the
\* result has that intent, confidence min(max(rule, llm) + 0.1, 1.0), the
\* action, query and parameters of the rule-based verdict, and the method
\* "combined".
C10_AgreementBoost ==
    (/\ ci.pc = "done"
     /\ ci.llm # Absent
     /\ ci.llm[1].confidence.num
     /\ ci.llm[1].intent = RuleVerdict.intent)
        => /\ ~ci.outcome.raised
           /\ ci.outcome.verdict # Absent
           /\ ci.outcome.verdict[1].intent = RuleVerdict.intent
           /\ ci.outcome.verdict[1].confidence =
                  Min(Max(RuleVerdict.confidence, ci.llm[1].confidence.v) + 1000, 10000)
           /\ ci.outcome.verdict[1].action = RuleVerdict.action
           /\ ci.outcome.verdict[1].query = RuleVerdict.query
           /\ ci.outcome.verdict[1].parameters = RuleVerdict.parameters
           /\ ci.outcome.verdict[1].method = "combined"

\* rule confidence 0.5 and LLM confidence 0.6 on the same intent give 0.7
C10_Witness ==
    /\ ci.pc = "done"
    /\ ci.llm # Absent
    /\ ci.llm[1].intent = RuleVerdict.intent
    /\ RuleVerdict.confidence = 5000
    /\ ci.llm[1].confidence = Num(6000)
    /\ ci.outcome.verdict # Absent
    /\ ci.outcome.verdict[1].confidence = 7000
    /\ ci.outcome.verdict[1].method = "combined"

\* the verdicts of both phases are there and name different intents
Disagreement ==
    /\ ci.pc = "done"
    /\ ci.llm # Absent
    /\ ci.llm[1].confidence.num
    /\ ci.llm[1].intent # RuleVerdict.intent

\* the action and the query that the text of the claims gives for an intent
\* label and an utterance
MappedAction(intent) ==
    IF intent \in {"take_screenshot_and_analyze", "take_screenshot"}
    THEN Some("take_screenshot")
    ELSE IF intent = "open_application" THEN Some("open_application")
    ELSE Absent

MappedQuery(intent, utterance) ==
    IF intent \in {"take_screenshot_and_analyze", "open_application"}
    THEN Some(utterance)
    ELSE IF intent = "take_screenshot" THEN Some(S_default_question)
    ELSE Absent

\* C11: when the rule-based and the LLM verdict name different intents, the
\* result has the intent and confidence of the LLM verdict iff the LLM
\* confidence is strictly higher; otherwise it has the intent, confidence,
\* action, query and parameters of the rule-based verdict. When the LLM
\* verdict wins, action and query are the intent-to-(action, query) mapping
\* applied to the LLM's intent (on the lower-cased utterance).
C11_DisagreementStrictlyHigher ==
    Disagreement
        => /\ ~ci.outcome.raised
           /\ ci.outcome.verdict # Absent
           /\ IF ci.llm[1].confidence.v > RuleVerdict.confidence
              THEN /\ ci.outcome.verdict[1].intent = ci.llm[1].intent
                   /\ ci.outcome.verdict[1].confidence = ci.llm[1].confidence.v
                   /\ ci.outcome.verdict[1].action = MappedAction(ci.llm[1].intent)
                   /\ ci.outcome.verdict[1].query =
                          MappedQuery(ci.llm[1].intent, str_lower(ci.text))
              ELSE /\ ci.outcome.verdict[1].intent = RuleVerdict.intent
                   /\ ci.outcome.verdict[1].confidence = RuleVerdict.confidence
                   /\ ci.outcome.verdict[1].action = RuleVerdict.action
                   /\ ci.outcome.verdict[1].query = RuleVerdict.query
                   /\ ci.outcome.verdict[1].parameters = RuleVerdict.parameters

\* a tie at 0.65 between different intents went to the rule-based verdict
C11_Witness ==
    /\ Disagreement
    /\ RuleVerdict.confidence = 6500
    /\ ci.llm[1].confidence = Num(6500)
    /\ ci.outcome.verdict # Absent
    /\ ci.outcome.verdict[1].intent = RuleVerdict.intent
    /\ ci.outcome.verdict[1].method = "rule_preferred"

\* C12: every verdict that classify_intent returns, whatever the LLM
\* replied, has a confidence between 0 and 1.
C12_ConfidenceInUnitRange ==
    (ci.pc = "done" /\ ci.outcome.verdict # Absent)
        => /\ ci.outcome.verdict[1].confidence >= 0
           /\ ci.outcome.verdict[1].confidence <= 10000

\* the text the rule-based scorer works on, for each utterance, and for the
\* call in flight
TextLowerOf == [text \in Texts |-> str_strip(str_lower(text))]

TextLower == TextLowerOf[ci.text]

\* the utterance contains no keyword, no analysis or application keyword, no
\* application name, and no regular expression of any intent finds a match
NoMatch(text_lower) ==
    \A i \in 1..Len(intent_patterns) :
        /\ Matches(intent_patterns[i].keywords, text_lower) = 0
        /\ Matches(intent_patterns[i].analysis_keywords, text_lower) = 0
        /\ Matches(intent_patterns[i].app_keywords, text_lower) = 0
        /\ Matches(intent_patterns[i].common_apps, text_lower) = 0
        /\ \A j \in 1..Len(intent_patterns[i].patterns) :
               ~re_search(intent_patterns[i].patterns[j], text_lower)

\* the utterances that match nothing
NoMatchTexts == {text \in Texts : NoMatch(TextLowerOf[text])}

\* C13: for an utterance that matches no keyword, no secondary keyword or
\* application name and no pattern of any intent, the rule-based verdict is
\* chat with no action, no query and confidence exactly 0.3.
C13_NoMatchIsChatAtFloor ==
    (ci.rule # Absent /\ ci.text \in NoMatchTexts)
        => /\ RuleVerdict.intent = "chat"
           /\ RuleVerdict.action = Absent
           /\ RuleVerdict.query = Absent
           /\ RuleVerdict.confidence = 3000

\* the words "take weather" match nothing and were scored
C13_Witness ==
    /\ ci.pc = "done"
    /\ ci.text = str_join(<<S_take, S_weather>>)
    /\ ci.text \in NoMatchTexts
    /\ ci.outcome.verdict # Absent
    /\ ci.outcome.verdict[1].intent = "chat"
    /\ ci.outcome.verdict[1].confidence = 3000

\* a call with use_llm = false has returned
RuleOnlyDone ==
    /\ ci.pc = "done"
    /\ ~ci.use_llm
    /\ ci.outcome.verdict # Absent

\* C14 as stated: with use_llm = false, action and query are the fixed
\* function of the verdict's intent, the query of the compound screenshot
\* intent and of open_application being the full input text.
C14_QueryIsInputText ==
    RuleOnlyDone
        => /\ ci.outcome.verdict[1].action =
                  MappedAction(ci.outcome.verdict[1].intent)
           /\ ci.outcome.verdict[1].query =
                  MappedQuery(ci.outcome.verdict[1].intent, ci.text)

\* C14: with use_llm = false, action and query are the fixed function of the
\* verdict's intent: take_screenshot_and_analyze gives take_screenshot and
\* open_application gives open_application, each with the input text
\* lower-cased and trimmed as query; take_screenshot gives take_screenshot
\* with the default question; chat gives neither.
C14_QueryIsLoweredTrimmedText ==
    RuleOnlyDone
        => /\ ci.outcome.verdict[1].action =
                  MappedAction(ci.outcome.verdict[1].intent)
           /\ ci.outcome.verdict[1].query =
                  MappedQuery(ci.outcome.verdict[1].intent, TextLower)

\* "open Notion" came back with the query "open notion"
C14_Witness ==
    /\ RuleOnlyDone
    /\ ci.text = str_join(<<S_open, S_Notion>>)
    /\ ci.outcome.verdict[1].action = Some("open_application")
    /\ ci.outcome.verdict[1].query = Some(str_join(<<S_open, S_notion>>))
    /\ ci.outcome.verdict[1].query # Some(ci.text)

\* the known application names that occur in the utterance
AppsIn(text_lower) == {app \in Range(CommonApps) : str_in(app, text_lower)}

\* the positions of the open/launch/start/run tokens of the utterance
VerbPositions(text_lower) ==
    {i \in 1..Len(str_split(text_lower)) : str_split(text_lower)[i] \in OpenVerbs}

FirstVerb(text_lower) ==
    CHOOSE i \in VerbPositions(text_lower) :
        \A j \in VerbPositions(text_lower) : i <= j

\* the token after the first open/launch/start/run token, if there is one
TokenAfterFirstVerb(text_lower) ==
    IF /\ VerbPositions(text_lower) # {}
       /\ FirstVerb(text_lower) < Len(str_split(text_lower))
    THEN {str_split(text_lower)[FirstVerb(text_lower) + 1]}
    ELSE {}

\* for each utterance, the application names that the claim allows: the
\* known names that occur in it, else the token after the first verb
ClaimedNames ==
    [text \in Texts |->
        IF AppsIn(TextLowerOf[text]) # {} THEN AppsIn(TextLowerOf[text])
        ELSE TokenAfterFirstVerb(TextLowerOf[text])]

\* the parameters of a screenshot verdict
ScreenshotParams ==
    RuleVerdict.intent \in {"take_screenshot", "take_screenshot_and_analyze"}
        => /\ RuleVerdict.parameters.auto_capture = Some(TRUE)
           /\ RuleVerdict.parameters.analysis_query # Absent

\* C15 as stated: an open_application verdict always has an
\* application_name, a known application name occurring in the utterance if
\* there is one and else the token after the first verb token; screenshot
\* verdicts have auto_capture = true and an analysis_query.
C15_ApplicationNamePresent ==
    ci.rule # Absent
        => /\ ScreenshotParams
           /\ RuleVerdict.intent = "open_application"
                 => /\ RuleVerdict.parameters.application_name # Absent
                    /\ RuleVerdict.parameters.application_name[1]
                           \in ClaimedNames[ci.text]

\* C15: the application_name of an open_application verdict is a known
\* application name occurring in the utterance if there is one; otherwise
\* the token after the first open/launch/start/run token if there is such a
\* token and it has a successor; otherwise there is no application_name.
\* Screenshot verdicts have auto_capture = true and an analysis_query.
C15_ApplicationNameWhenFound ==
    ci.rule # Absent
        => /\ ScreenshotParams
           /\ RuleVerdict.intent = "open_application"
                 => IF ClaimedNames[ci.text] = {}
                    THEN RuleVerdict.parameters.application_name = Absent
                    ELSE /\ RuleVerdict.parameters.application_name # Absent
                         /\ RuleVerdict.parameters.application_name[1]
                                \in ClaimedNames[ci.text]

\* "app open" is taken for open_application and yields no application_name:
\* no known application occurs and the verb is the last token
C15_Witness ==
    /\ ci.pc = "done"
    /\ ci.text = str_join(<<S_app, S_open>>)
    /\ RuleVerdict.intent = "open_application"
    /\ VerbPositions(TextLower) # {}
    /\ ClaimedNames[ci.text] = {}
    /\ RuleVerdict.parameters.application_name = Absent

\* C16: two calls of classify_intent with the same text and the same
\* use_llm, with no change of availability in between, return the same
\* intent, confidence, action, query, parameters and method.
C16_RepeatedCallSameVerdict ==
    (ci.pc = "done" /\ prev # Absent)
        => /\ ci.outcome.raised = prev[1].raised
           /\ (ci.outcome.verdict = Absent) = (prev[1].verdict = Absent)
           /\ ci.outcome.verdict # Absent
                 => /\ ci.outcome.verdict[1].intent = prev[1].verdict[1].intent
                    /\ ci.outcome.verdict[1].confidence = prev[1].verdict[1].confidence
                    /\ ci.outcome.verdict[1].action = prev[1].verdict[1].action
                    /\ ci.outcome.verdict[1].query = prev[1].verdict[1].query
                    /\ ci.outcome.verdict[1].parameters = prev[1].verdict[1].parameters
                    /\ ci.outcome.verdict[1].method = prev[1].verdict[1].method

\* the LLM layer behind the service has a usable provider: there is an
\* LLMService and it has a client
ProviderUsable == svc.llm_service /\ svc.client

\* C17: classify_intent asks for an LLM verdict only when use_llm is true
\* and the LLM layer has a provider registered and active; when no provider
\* is usable it returns the rule-based verdict alone.
C17_LlmOnlyWhenProviderUsable ==
    /\ (ci.pc = "await_llm" \/ ci.reply # Absent)
           => (ci.use_llm /\ ProviderUsable)
    /\ (ci.pc = "done" /\ ~ProviderUsable)
           => ci.outcome = Outcome(FALSE, Some(RuleVerdict))

\* the method tags of the verdicts that calls without an LLM phase return
RuleOnlyMethods == {RuleBased[text].method : text \in Texts}

\* C18: when the LLM phase fails, the rule-based verdict that is returned
\* has a method tag that tells it from the verdict of a call with
\* use_llm = false or without an LLM.
C18_DegradedMethodTag ==
    (ci.pc = "done" /\ LlmPhaseFailed /\ ci.outcome.verdict # Absent)
        => ci.outcome.verdict[1].method \notin RuleOnlyMethods

\* an initialize() call of the adapter has returned or raised
InitializeEnded == ad.pc = "idle" /\ ad.ret # "none"

\* C19: initialize() of an adapter never raises on a missing credential, an
\* unreachable host, a timeout or a non-200 answer: it returns false, for a
\* missing credential without contacting the backend; it returns true only
\* after its probe succeeded.
C19_InitializeNeverRaises ==
    InitializeEnded
        => /\ ad.ret \in {"true", "false"}
           /\ (ad.variant \in {"openai", "gemini"} /\ ad.api_key # "set")
                 => (ad.ret = "false" /\ ~ad.contacted)
           /\ ad.probe \in {"unreachable", "timeout", "non200", "bad_body"}
                 => ad.ret = "false"
           /\ ad.ret = "true" => (ad.contacted /\ ad.probe = "ok")

\* a probe that timed out after an earlier initialize() had succeeded
C19_Witness ==
    /\ InitializeEnded
    /\ ad.succeeded
    /\ ad.contacted
    /\ ad.probe = "timeout"
    /\ ad.ret = "false"

\* C20: between calls of initialize(), is_available() of an adapter is true
\* iff some earlier initialize() returned true; it is false after an
\* initialize() whose probe failed.
C20_AvailableIffInitialized ==
    [][(ad.pc = "idle" /\ adapter_is_available)
          => /\ ad'.available = (IF ad.succeeded THEN "true" ELSE "false")
             /\ (ad.ret = "false" /\ ad.contacted /\ ~ad.succeeded)
                   => ad'.available = "false"]_vars

\* C21: the request of chat_completion carries the caller's max_tokens and
\* temperature whenever the caller gave them (any temperature from 0 to 2,
\* any positive max_tokens), and the adapter's default exactly when the
\* caller gave none.
C21_CallerValuesSent ==
    ad.request # Absent
        => /\ ad.request[1].max_tokens =
                  (IF ad.call[1].max_tokens = Absent THEN default_max_tokens
                   ELSE ad.call[1].max_tokens[1])
           /\ ad.request[1].temperature =
                  (IF ad.call[1].temperature = Absent THEN default_temperature
                   ELSE ad.call[1].temperature[1])

\* C22: after a successful set_active_provider, fallback_order is the
\* configured list restricted to the registered providers other than the
\* active one, so a provider that was active earlier is a fallback candidate
\* again.
C22_FallbackOrderRecomputed ==
    (ret.op = "set_active_provider" /\ ret.value = TRUE)
        => fallback_order =
               Filter(config.fallback_order, Range(providers) \ {active_provider})

\* the score that the text of C23 gives an intent definition, in exact
\* arithmetic (units of 1/10000)
ClaimedScore(intent_config, text_lower) ==
    (IF Len(intent_config.keywords) > 0
     THEN (Matches(intent_config.keywords, text_lower) * 4000)
              \div Len(intent_config.keywords)
     ELSE 0)
    + (IF /\ intent_config.name = "take_screenshot_and_analyze"
          /\ Matches(intent_config.keywords, text_lower) > 0
          /\ Matches(intent_config.analysis_keywords, text_lower) > 0
       THEN 4000 ELSE 0)
    + (IF /\ intent_config.name = "open_application"
          /\ \/ Matches(intent_config.app_keywords, text_lower) > 0
             \/ Matches(intent_config.common_apps, text_lower) > 0
       THEN 3000 ELSE 0)
    + (IF \E j \in 1..Len(intent_config.patterns) :
              re_search(intent_config.patterns[j], text_lower)
       THEN 3000 ELSE 0)
    + intent_config.confidence_boost

\* the intent that wins by these scores: the earliest definition among
\* those with the highest score, if that score exceeds 0.3, else chat
ClaimedWinner(text_lower) ==
    LET above == {i \in 1..Len(intent_patterns) :
                     ClaimedScore(intent_patterns[i], text_lower) > 3000}
    IN  IF above = {} THEN [intent |-> "chat", score |-> 3000]
        ELSE LET w == CHOOSE i \in above :
                         \A j \in above :
                             \/ ClaimedScore(intent_patterns[i], text_lower)
                                    > ClaimedScore(intent_patterns[j], text_lower)
                             \/ /\ ClaimedScore(intent_patterns[i], text_lower)
                                       = ClaimedScore(intent_patterns[j], text_lower)
                                /\ i <= j
             IN  [intent |-> intent_patterns[w].name,
                  score |-> ClaimedScore(intent_patterns[w], text_lower)]

ClaimedWinnerOf == [text \in Texts |-> ClaimedWinner(TextLowerOf[text])]

\* C23: the rule-based verdict is the intent whose score (keyword share
\* times 0.4, plus the intent's bonus, plus 0.3 for a pattern match, plus
\* the fixed boost) is the highest and above 0.3, the earlier definition
\* winning equal scores, else chat; its confidence is that score, capped
\* at 1, up to the rounding of the last digit.
C23_ScoreFormula ==
    ci.rule # Absent
        => /\ RuleVerdict.intent = ClaimedWinnerOf[ci.text].intent
           /\ RuleVerdict.confidence - Min(ClaimedWinnerOf[ci.text].score, 10000)
                  \in {-1, 0, 1}

\* the reply of the call in flight is text that json.loads rejects
TextReply ==
    /\ ci.pc = "done"
    /\ ci.reply # Absent
    /\ ci.reply[1].kind = "text"

\* the label that the text of C24 gives for a reply: the first of the three
\* labels, in this order, one of whose tokens occurs in the reply
ClaimedTextIntent(reply_text) ==
    LET Has(tokens) == \E t \in tokens : str_in(t, str_lower(reply_text))
    IN  CASE Has({S_take_screenshot_and_analyze, S_screenshot_dotstar_analyz})
                 -> "take_screenshot_and_analyze"
          [] /\ ~Has({S_take_screenshot_and_analyze, S_screenshot_dotstar_analyz})
             /\ Has({S_take_screenshot, S_screenshot})
                 -> "take_screenshot"
          [] /\ ~Has({S_take_screenshot_and_analyze, S_screenshot_dotstar_analyz,
                      S_take_screenshot, S_screenshot})
             /\ Has({S_open_application, S_open_dotstar_app})
                 -> "open_application"
          [] OTHER -> "chat"

\* C24: when the reply of the LLM is not JSON, the LLM verdict has
\* confidence 0.6, the method "llm_text_based" and the intent found by
\* substring search with the precedence take_screenshot_and_analyze,
\* take_screenshot, open_application, else chat; classify_intent does not
\* fail but returns the reconciliation of the rule-based verdict with it.
C24_TextReplyVerdict ==
    TextReply
        => /\ ci.llm # Absent
           /\ ci.llm[1].confidence = Num(6000)
           /\ ci.llm[1].method = "llm_text_based"
           /\ ci.llm[1].intent = ClaimedTextIntent(ci.reply[1].text)
           /\ ~ci.outcome.raised
           /\ ci.outcome.verdict # Absent
           /\ IF ci.llm[1].intent = RuleVerdict.intent
              THEN /\ ci.outcome.verdict[1].method = "combined"
                   /\ ci.outcome.verdict[1].intent = RuleVerdict.intent
              ELSE IF 6000 > RuleVerdict.confidence
              THEN /\ ci.outcome.verdict[1].method = "llm_preferred"
                   /\ ci.outcome.verdict[1].intent = ci.llm[1].intent
                   /\ ci.outcome.verdict[1].confidence = 6000
              ELSE /\ ci.outcome.verdict[1].method = "rule_preferred"
                   /\ ci.outcome.verdict[1].intent = RuleVerdict.intent

\* the reply is the bare label take_screenshot_and_analyze, which contains
\* the label take_screenshot, for an utterance that the rules take for chat
C24_Witness ==
    /\ TextReply
    /\ ci.reply[1].text = S_take_screenshot_and_analyze
    /\ RuleVerdict.intent = "chat"
    /\ ci.outcome.verdict # Absent
    /\ ci.outcome.verdict[1].intent = "take_screenshot_and_analyze"
    /\ ci.outcome.verdict[1].confidence = 6000

\* the verdicts name different intents and the LLM's confidence is the
\* higher
LlmWins ==
    /\ Disagreement
    /\ ci.llm[1].confidence.v > RuleVerdict.confidence

\* what the reply of the call in flight gave as extracted_info
ExtractedInfo ==
    IF ci.reply[1].kind = "object" /\ ci.reply[1].extracted_info # Absent
    THEN ci.reply[1].extracted_info[1]
    ELSE NoParams

\* C25 as stated: when the verdicts disagree and the LLM verdict wins, what
\* the LLM extracted is not in the parameters of the verdict returned.
C25_ExtractedInfoDiscarded ==
    (LlmWins /\ ExtractedInfo # NoParams)
        => /\ ci.outcome.verdict # Absent
           /\ ci.outcome.verdict[1].parameters # ExtractedInfo

\* C25: when the verdicts disagree and the LLM verdict wins, the parameters
\* of the verdict returned are what the LLM extracted (none when the reply
\* gave none), not the parameters of the rule-based verdict.
C25_ExtractedInfoReturned ==
    LlmWins
        => /\ ci.outcome.verdict # Absent
           /\ ci.outcome.verdict[1].parameters = ExtractedInfo

\* the rules find an application name of their own, the LLM answers chat
\* with the application name notion and wins
C25_Witness ==
    /\ LlmWins
    /\ RuleVerdict.intent = "open_application"
    /\ RuleVerdict.parameters.application_name \notin {Absent, Some(S_notion)}
    /\ ExtractedInfo.application_name = Some(S_notion)
    /\ ci.outcome.verdict # Absent
    /\ ci.outcome.verdict[1].parameters.application_name = Some(S_notion)

\* the generator of stream_completion has been left: its sequence ended,
\* it raised, or it was closed after the consumer stopped
StreamLeft == ad.stream \in {"ended", "failed", "closed"}

\* C26: once the sequence of stream_completion has ended, failed or been
\* closed after the consumer stopped consuming, the connection that
\* stream_completion opened is not open any more, for every adapter class.
C26_StreamConnectionReleased ==
    StreamLeft => ad.conn # "open"

\* C27: an adapter makes at most one network client handle in its
\* lifetime, and makes it in initialize(); chat_completion and
\* stream_completion make none.
C27_OneHandleFromInitialize ==
    /\ ad.handles <= 1
    /\ ad.created_in \in {"none", "initialize"}

\* C28: after initialize and any set_active_provider calls, every name in
\* fallback_order is a key of providers, and the fallback loop of
\* chat_completion never fails on looking up a fallback adapter.
C28_FallbackOrderRegistered ==
    /\ Range(fallback_order) \subseteq Range(providers)
    /\ cc.keyerrors = <<>>

\* the configured list names a provider that is not registered, the active
\* provider has been switched, and a dispatch has gone through a fallback
C28_Witness ==
    /\ Range(config.fallback_order) \ Range(providers) # {}
    /\ ret.op = "set_active_provider" /\ ret.value = TRUE
    /\ cc.pc = "done"
    /\ Len(cc.calls) >= 2

\* no entry of the sequence occurs twice
NoDuplicates(s) == \A i, j \in 1..Len(s) : s[i] = s[j] => i = j

\* a dispatch without an explicit provider and with use_fallback, under a
\* configured fallback list without duplicates
DispatchWithFallback ==
    /\ cc.pc # "idle"
    /\ cc.provider = None
    /\ cc.use_fallback
    /\ NoDuplicates(config.fallback_order)

\* C29: whatever set_active_provider calls run while a dispatch (no
\* explicit provider, use_fallback, configured list without duplicates) is
\* suspended, the dispatch calls first the provider that was active when it
\* started, never calls that provider again as a fallback, and calls every
\* adapter at most once.
C29_DispatchUnderSwitches ==
    /\ [][(cc.pc = "idle" /\ cc'.pc = "await_target" /\ cc'.provider = None)
              => cc'.calls = <<active_provider>>]_vars
    /\ [][(cc.pc # "idle" /\ cc'.pc # "idle" /\ cc.calls # <<>>)
              => (cc'.calls # <<>> /\ cc'.calls[1] = cc.calls[1])]_vars
    /\ [](DispatchWithFallback
              => /\ \A i \in 2..Len(cc.calls) : cc.calls[i] # cc.calls[1]
                 /\ NoDuplicates(cc.calls))

\* the active provider was switched while the dispatch was suspended, and
\* the dispatch has gone on to call two fallbacks
C29_Witness ==
    /\ DispatchWithFallback
    /\ cc.pc = "done"
    /\ Len(cc.calls) = 3
    /\ active_provider # cc.calls[1]
    /\ ret.op = "set_active_provider" /\ ret.value = TRUE

\* the four labels of the taxonomy
Taxonomy ==
    {"chat", "take_screenshot", "take_screenshot_and_analyze", "open_application"}

\* C30: every verdict that classify_intent returns, for every utterance and
\* every LLM reply, has one of the four taxonomy labels as its intent, and
\* has an action exactly when that label is not chat.
C30_VerdictInTaxonomy ==
    (ci.pc = "done" /\ ci.outcome.verdict # Absent)
        => /\ ci.outcome.verdict[1].intent \in Taxonomy
           /\ ci.outcome.verdict[1].action # Absent
                  <=> ci.outcome.verdict[1].intent # "chat"

====
